---- MODULE Spec2Model ----
(***************************************************************************)
(* Battery energy storage scheduling (johanzander/batterymanager).         *)
(*                                                                         *)
(* Units.  The Python code computes in floats; the model uses exact        *)
(* integers: energy in tenths of a kWh (6 kWh = 60), prices, cycle cost    *)
(* and profit per kWh in tenths of a SEK (0.2 SEK = 2), costs therefore in *)
(* hundredths of a SEK.  The 80% test  total >= charge * 0.8  is evaluated *)
(* exactly as  total * 10 >= charge * 8.                                   *)
(*                                                                         *)
(* Python lists are modelled as functions over 0..n-1 (hours) so that the  *)
(* indices of the source are kept; the sorted trade list is a sequence.    *)
(***************************************************************************)
EXTENDS Integers, Sequences, FiniteSets, TLC

\* ------------------------------------------------------------------------
\* Bounds of the model
\* ------------------------------------------------------------------------
\* Number of hours of the planning horizon (len(prices); 24 in production).
NHours == 4
\* Prices are drawn from {0, PriceStep, ..., MaxPriceLevel * PriceStep}.
MaxPriceLevel == 3
PriceStep == 7

Hours == 0 .. (NHours - 1)
Slots == 0 .. NHours
PriceValues == {l * PriceStep : l \in 0 .. MaxPriceLevel}
PriceVectors == [Hours -> PriceValues]

\* ------------------------------------------------------------------------
\* Program constants
\* ------------------------------------------------------------------------
\* find_profitable_trades(prices, cycle_cost=0.5, min_profit_threshold=0.2);
\* optimize_battery calls it without the third argument.
MIN_PROFIT_THRESHOLD == 2
\* optimize_battery(..., max_charge_rate=6)
MAX_CHARGE_RATE == 60
\* BATTERY_MIN_SOC, percent
BATTERY_MIN_SOC == 10

\* Cycle cost handed to the planner: charge_cycle_cost (0.50) or
\* charge_cycle_cost / vat_multiplier (0.50 / 1.25 = 0.40).
CycleCosts == {4, 5}
\* Scalar hourly consumption handed to the planner (4.0, 5.2 and 8.0 kWh).
Consumptions == {40, 52, 80}
\* Battery configurations (total, reserved = total * min_soc / 100), one of
\* them with a usable energy below max_charge_rate, and the degenerate one
\* with no usable energy.
BatteryConfigs ==
    { [total_capacity |-> 100, reserved_capacity |-> (100 * BATTERY_MIN_SOC) \div 100],
      [total_capacity |-> 300, reserved_capacity |-> (300 * BATTERY_MIN_SOC) \div 100],
      [total_capacity |-> 60, reserved_capacity |-> (60 * BATTERY_MIN_SOC) \div 100],
      [total_capacity |-> 30, reserved_capacity |-> 30] }

Min(a, b) == IF a < b THEN a ELSE b
Max(a, b) == IF a > b THEN a ELSE b

\* ------------------------------------------------------------------------
\* algorithms.py: trade discovery
\* ------------------------------------------------------------------------
create_trade(charge_hour, discharge_hour, charge_price, discharge_price, cycle_cost) ==
    [ charge_hour |-> charge_hour,
      discharge_hour |-> discharge_hour,
      charge_price |-> charge_price,
      discharge_price |-> discharge_price,
      cycle_cost |-> cycle_cost,
      profit_per_kwh |-> discharge_price - charge_price - cycle_cost ]

\* The nested loops "for charge_hour in range(n) / for discharge_hour in
\* range(charge_hour + 1, n)" visit the pairs in lexicographic order.
candidate_trades(prices, cycle_cost) ==
    LET n == NHours
        all == [k \in 1 .. (n * n) |->
                  create_trade((k - 1) \div n, (k - 1) % n,
                               prices[(k - 1) \div n], prices[(k - 1) % n],
                               cycle_cost)]
    IN SelectSeq(all, LAMBDA t : t.discharge_hour > t.charge_hour)

\* The retention test of find_profitable_trades.
keep_trade(trade, min_profit_threshold) ==
    trade.profit_per_kwh >= min_profit_threshold

\* Bubble sort, descending by profit_per_kwh, swapping only on strict "<".
RECURSIVE bubble_inner(_, _, _)
bubble_inner(s, j, last) ==
    IF j > last THEN s
    ELSE IF s[j].profit_per_kwh < s[j + 1].profit_per_kwh
         THEN bubble_inner([s EXCEPT ![j] = s[j + 1], ![j + 1] = s[j]], j + 1, last)
         ELSE bubble_inner(s, j + 1, last)

RECURSIVE bubble_outer(_, _)
bubble_outer(s, i) ==
    IF i >= Len(s) THEN s
    ELSE bubble_outer(bubble_inner(s, 1, Len(s) - i - 1), i + 1)

find_profitable_trades(prices, cycle_cost, min_profit_threshold) ==
    bubble_outer(
        SelectSeq(candidate_trades(prices, cycle_cost),
                  LAMBDA t : keep_trade(t, min_profit_threshold)),
        0)

\* ------------------------------------------------------------------------
\* algorithms.py: one iteration of the trade loop of optimize_battery
\* ------------------------------------------------------------------------
RECURSIVE plan_total(_)
plan_total(plan) ==
    IF plan = << >> THEN 0 ELSE Head(plan).amount + plan_total(Tail(plan))

\* charge_amount = min(max_charge_rate, total_capacity - current_soe)
charge_amount_of(cfg, state_of_energy, charge_hour) ==
    Min(cfg.max_charge_rate, cfg.total_capacity - state_of_energy[charge_hour])

\* min(remaining_capacity, energy_to_discharge), primary and secondary alike
discharge_amount_uncapped(remaining_capacity, energy_to_discharge) == energy_to_discharge
discharge_amount(remaining_capacity, energy_to_discharge) ==
    Min(remaining_capacity, energy_to_discharge)

primary_plan(primary_trade, discharge_capacities, energy_to_discharge) ==
    LET remaining_capacity == discharge_capacities[primary_trade.discharge_hour]
    IN IF remaining_capacity > 0
       THEN << [hour |-> primary_trade.discharge_hour,
                amount |-> discharge_amount(remaining_capacity, energy_to_discharge)] >>
       ELSE << >>

\* The condition under which a trade of the list is used as a secondary
\* discharge opportunity.
secondary_eligible_any_charge_hour(secondary_trade, primary_trade, discharge_capacities) ==
    /\ secondary_trade.discharge_hour # primary_trade.discharge_hour
    /\ discharge_capacities[secondary_trade.discharge_hour] > 0
    /\ secondary_trade.profit_per_kwh > 0
secondary_eligible(secondary_trade, primary_trade, discharge_capacities) ==
    /\ secondary_trade.discharge_hour # primary_trade.discharge_hour
    /\ secondary_trade.charge_hour = primary_trade.charge_hour
    /\ discharge_capacities[secondary_trade.discharge_hour] > 0
    /\ secondary_trade.profit_per_kwh > 0

RECURSIVE secondary_plan(_, _, _, _, _, _)
secondary_plan(trades, k, primary_trade, discharge_capacities, plan, energy_to_discharge) ==
    IF k > Len(trades) \/ energy_to_discharge <= 0 THEN plan
    ELSE LET secondary_trade == trades[k]
             secondary_discharge ==
                 discharge_amount(discharge_capacities[secondary_trade.discharge_hour],
                                  energy_to_discharge)
         IN IF /\ secondary_eligible(secondary_trade, primary_trade, discharge_capacities)
               /\ secondary_discharge > 0
            THEN secondary_plan(trades, k + 1, primary_trade, discharge_capacities,
                                Append(plan, [hour |-> secondary_trade.discharge_hour,
                                              amount |-> secondary_discharge]),
                                energy_to_discharge - secondary_discharge)
            ELSE secondary_plan(trades, k + 1, primary_trade, discharge_capacities,
                                plan, energy_to_discharge)

build_discharge_plan(trades, primary_trade, discharge_capacities, charge_amount) ==
    LET first == primary_plan(primary_trade, discharge_capacities, charge_amount)
        energy_to_discharge == charge_amount - plan_total(first)
    IN IF energy_to_discharge > 0
       THEN secondary_plan(trades, 1, primary_trade, discharge_capacities,
                           first, energy_to_discharge)
       ELSE first

\* len(discharge_plan) > 0 and total_discharge >= charge_amount * 0.8
plan_accepted_any(discharge_plan, charge_amount) == Len(discharge_plan) > 0
plan_accepted(discharge_plan, charge_amount) ==
    /\ Len(discharge_plan) > 0
    /\ plan_total(discharge_plan) * 10 >= charge_amount * 8

\* state_of_energy[h] = min(state_of_energy[h] + charge_amount, total) for h > charge_hour
apply_charge_unclamped(state_of_energy, charge_hour, charge_amount, total_capacity) ==
    [h \in DOMAIN state_of_energy |->
        IF h > charge_hour THEN state_of_energy[h] + charge_amount
        ELSE state_of_energy[h]]
apply_charge(state_of_energy, charge_hour, charge_amount, total_capacity) ==
    [h \in DOMAIN state_of_energy |->
        IF h > charge_hour
        THEN Min(state_of_energy[h] + charge_amount, total_capacity)
        ELSE state_of_energy[h]]

\* state_of_energy[h] = max(state_of_energy[h] - discharge_amount, reserved) for h > discharge_hour
apply_discharge_soe(state_of_energy, discharge_hour, amount, reserved_capacity) ==
    [h \in DOMAIN state_of_energy |->
        IF h > discharge_hour
        THEN Max(state_of_energy[h] - amount, reserved_capacity)
        ELSE state_of_energy[h]]

\* "for discharge_hour, discharge_amount in discharge_plan": actions,
\* discharge_capacities and state_of_energy are updated entry by entry.
RECURSIVE apply_discharges(_, _, _)
apply_discharges(st, plan, reserved_capacity) ==
    IF plan = << >> THEN st
    ELSE LET e == Head(plan)
         IN apply_discharges(
               [st EXCEPT
                  !.actions[e.hour] = @ - e.amount,
                  !.discharge_capacities[e.hour] = @ - e.amount,
                  !.state_of_energy =
                      apply_discharge_soe(@, e.hour, e.amount, reserved_capacity)],
               Tail(plan), reserved_capacity)

\* The body of "for primary_trade in trades", after the break test.
\* st: [state_of_energy, actions, discharge_capacities, energy_for_discharge,
\*      committed]; committed is the list of executed trades as the code logs
\* them ("Trade executed: Charge .. at hour .., Discharges: ..").
trade_iteration(st, trades, primary_trade, cfg) ==
    IF st.actions[primary_trade.charge_hour] # 0 THEN st
    ELSE
      LET charge_amount == charge_amount_of(cfg, st.state_of_energy, primary_trade.charge_hour)
      IN IF charge_amount <= 0 THEN st
         ELSE
           LET discharge_plan ==
                 build_discharge_plan(trades, primary_trade, st.discharge_capacities,
                                      charge_amount)
           IN IF ~ plan_accepted(discharge_plan, charge_amount) THEN st
              ELSE
                LET charged ==
                      [st EXCEPT
                         !.actions[primary_trade.charge_hour] = charge_amount,
                         !.state_of_energy =
                             apply_charge(@, primary_trade.charge_hour, charge_amount,
                                          cfg.total_capacity)]
                    discharged ==
                      apply_discharges(charged, discharge_plan, cfg.reserved_capacity)
                IN [discharged EXCEPT
                      !.energy_for_discharge = @ - charge_amount,
                      !.committed = Append(@, [charge_hour |-> primary_trade.charge_hour,
                                               charge_amount |-> charge_amount,
                                               discharge_plan |-> discharge_plan])]

\* State of optimize_battery before the trade loop.
initial_plan_state(cfg) ==
    [ state_of_energy |-> [h \in Slots |-> cfg.reserved_capacity],
      actions |-> [h \in Hours |-> 0],
      discharge_capacities |-> [h \in Hours |-> cfg.hourly_consumption],
      energy_for_discharge |-> cfg.total_capacity - cfg.reserved_capacity,
      committed |-> << >> ]

\* ------------------------------------------------------------------------
\* algorithms.py: cost accounting of optimize_battery
\* ------------------------------------------------------------------------
hour_base_cost(cfg, prices, hour) == cfg.hourly_consumption * prices[hour]

hour_total_cost(cfg, prices, actions, hour) ==
    LET action == actions[hour]
        grid_cost == IF action >= 0
                     THEN (cfg.hourly_consumption + action) * prices[hour]
                     ELSE Max(0, cfg.hourly_consumption + action) * prices[hour]
        battery_cost == IF action >= 0 THEN action * cfg.cycle_cost ELSE 0
    IN grid_cost + battery_cost

RECURSIVE sum_hours(_, _)
sum_hours(f, n) == IF n = 0 THEN 0 ELSE f[n - 1] + sum_hours(f, n - 1)

cost_summary(cfg, prices, actions) ==
    LET base == sum_hours([h \in Hours |-> hour_base_cost(cfg, prices, h)], NHours)
        opt == sum_hours([h \in Hours |-> hour_total_cost(cfg, prices, actions, h)], NHours)
    IN [base_cost |-> base, optimized_cost |-> opt, cost_savings |-> base - opt]

\* ------------------------------------------------------------------------
\* optimize_battery as a whole (the loop run to completion)
\* ------------------------------------------------------------------------
RECURSIVE trade_loop(_, _, _, _)
trade_loop(st, trades, k, cfg) ==
    IF k > Len(trades) \/ st.energy_for_discharge <= 0 THEN st
    ELSE trade_loop(trade_iteration(st, trades, trades[k], cfg), trades, k + 1, cfg)

optimize_battery(prices, cfg) ==
    LET trades == find_profitable_trades(prices, cfg.cycle_cost, MIN_PROFIT_THRESHOLD)
        st == trade_loop(initial_plan_state(cfg), trades, 1, cfg)
        costs == cost_summary(cfg, prices, st.actions)
    IN [ state_of_energy |-> st.state_of_energy,
         actions |-> st.actions,
         base_cost |-> costs.base_cost,
         optimized_cost |-> costs.optimized_cost,
         cost_savings |-> costs.cost_savings ]

\* ------------------------------------------------------------------------
\* State
\* ------------------------------------------------------------------------
VARIABLES
    pc,        \* position of the planner run: "idle", "loop" or "done"
    prices,    \* argument prices
    cfg,       \* the other arguments of optimize_battery (the facade's settings)
    trades,    \* result of find_profitable_trades
    idx,       \* 1-based index of the next primary trade
    plan,      \* the planner's local state (see initial_plan_state)
    result,    \* cost summary once returned, NoResult before
    \* inverter, as seen through HomeAssistantController
    grid_charge,       \* switch "charge from grid"
    discharge_rate,    \* discharging power rate, percent
    battery_soc,       \* state of charge sensor, percent
    test_mode,         \* HomeAssistantController.test_mode
    \* facade
    current_schedule,  \* BatterySystemManager._current_schedule
    sm_schedule,       \* GrowattScheduleManager.current_schedule
    planned_soc,       \* current_soc read by the last optimization run
    last_call,         \* the last facade call and its outcome
    calls,             \* setter invocations of the last apply_schedule
    has_controller,    \* BatterySystemManager._controller is not None
    detailed_intervals, \* GrowattScheduleManager.detailed_intervals
    tou_intervals,     \* GrowattScheduleManager.tou_intervals
    before_call,       \* schedule and intervals when the last call started
    trace,             \* steps of the last facade call, in order
    \* pyscript tasks
    tasks,             \* position of every triggered function
    \* projector query
    hourly_settings,   \* the last get_hourly_settings(hour): whether a
                       \* schedule was loaded, and the settings returned
    \* power monitor
    charging_power_rate, \* charging power rate of the inverter, percent
    phase_currents,    \* currents of the three phases, ampere
    \* consumption manager
    predictions,       \* ConsumptionManager._predictions, per hour
    actual_consumption, \* ConsumptionManager._actual_consumption, per hour
    soc_of_hour,       \* ConsumptionManager._battery_soc, per hour
    update_order       \* hours of the records of actual_consumption, in
                       \* the order of the calls

planner_vars == << pc, prices, trades, idx, plan, result >>
facade_vars == << grid_charge, discharge_rate, battery_soc, test_mode,
                  current_schedule, sm_schedule, planned_soc, last_call, calls,
                  has_controller, detailed_intervals, tou_intervals,
                  before_call, trace, tasks,
                  hourly_settings, charging_power_rate, phase_currents,
                  predictions, actual_consumption, soc_of_hour, update_order >>
task_vars == << tasks >>
monitor_vars == << charging_power_rate, phase_currents >>
consumption_vars == << predictions, actual_consumption, soc_of_hour,
                       update_order >>
component_vars == << hourly_settings, monitor_vars, consumption_vars >>
vars == << pc, prices, cfg, trades, idx, plan, result,
           grid_charge, discharge_rate, battery_soc, test_mode,
           current_schedule, sm_schedule, planned_soc, last_call, calls,
           has_controller, detailed_intervals, tou_intervals,
           before_call, trace, tasks,
           hourly_settings, charging_power_rate, phase_currents,
           predictions, actual_consumption, soc_of_hour, update_order >>

NoResult == [base_cost |-> 0, optimized_cost |-> 0, cost_savings |-> 0]

PlannerConfigs ==
    { [ total_capacity |-> b.total_capacity,
        reserved_capacity |-> b.reserved_capacity,
        cycle_cost |-> cc,
        hourly_consumption |-> hc,
        max_charge_rate |-> MAX_CHARGE_RATE ]
      : b \in BatteryConfigs, cc \in CycleCosts, hc \in Consumptions }

\* ------------------------------------------------------------------------
\* schedule.py / growatt_schedule.py: per-hour settings
\* ------------------------------------------------------------------------
NoSchedule == [actions |-> << >>, state_of_energy |-> << >>]

\* Schedule.set_optimization_results keeps actions and state_of_energy;
\* _create_hourly_intervals derives one interval per action.
new_schedule(optimization_result) ==
    [ actions |-> optimization_result.actions,
      state_of_energy |-> optimization_result.state_of_energy ]

\* Schedule._create_hourly_intervals: the state tag of an hour.
interval_state_from_zero(action) ==
    IF action >= 0 THEN "charging"
    ELSE "discharging"
interval_state(action) ==
    IF action > 0 THEN "charging"
    ELSE IF action < 0 THEN "discharging"
    ELSE "standby"

\* Schedule.get_hour_settings: hours without an interval are standby.
get_hour_settings(schedule, hour) ==
    IF hour < 0 \/ hour >= Cardinality(DOMAIN schedule.actions)
    THEN [state |-> "standby", action |-> 0]
    ELSE [state |-> interval_state(schedule.actions[hour]),
          action |-> schedule.actions[hour]]

\* GrowattScheduleManager.get_hourly_settings
get_hourly_settings(schedule, hour) ==
    IF schedule = NoSchedule
    THEN [grid_charge |-> FALSE, discharge_rate |-> 0]
    ELSE LET settings == get_hour_settings(schedule, hour)
         IN [grid_charge |-> settings.state = "charging",
             discharge_rate |-> IF settings.state = "discharging" THEN 100 ELSE 0]

\* ------------------------------------------------------------------------
\* growatt_schedule.py: projection of the hourly schedule onto TOU intervals
\* ------------------------------------------------------------------------
\* GrowattScheduleManager.max_intervals
max_intervals == 8

\* The time "HH:MM" of the f-strings, as the minute of the day.
hhmm(hh, mm) == hh * 60 + mm

create_detailed_interval(segment_id, batt_mode, start_time, end_time, enabled, gc, rate) ==
    [ segment_id |-> segment_id, batt_mode |-> batt_mode,
      start_time |-> start_time, end_time |-> end_time,
      enabled |-> enabled, grid_charge |-> gc, discharge_rate |-> rate ]

create_tou_interval(segment_id, start_time, end_time) ==
    [ segment_id |-> segment_id, batt_mode |-> "battery-first",
      start_time |-> start_time, end_time |-> end_time, enabled |-> TRUE ]

\* Schedule._create_hourly_intervals: start_time of the interval of an hour.
interval_start_time(hour) == hhmm(hour, 0)

behavior_changed(current_action, next_action) ==
    \/ (current_action > 0) # (next_action > 0)
    \/ (current_action < 0) # (next_action < 0)
    \/ (current_action = 0 /\ next_action # 0)
    \/ (current_action # 0 /\ next_action = 0)

needs_wake_up_never(current_action, next_action, hour) == FALSE
needs_wake_up(current_action, next_action, hour) ==
    next_action > 0 /\ ~ (current_action > 0) /\ hour > 0

closing_end_time_on_the_hour(wake_up, hour) == hhmm(hour - 1, 59)
closing_end_time(wake_up, hour) ==
    IF wake_up THEN hhmm(hour - 1, 44)
    ELSE IF hour = 24 THEN hhmm(23, 44)
    ELSE hhmm(hour - 1, 59)

\* The interval that describes the hours since start_time.
regular_interval(detailed, current_action, start_time, end_time) ==
    create_detailed_interval(
        Len(detailed) + 1,
        IF current_action < 0 THEN "load-first" ELSE "battery-first",
        start_time, end_time, TRUE, current_action > 0,
        IF current_action < 0 THEN 100 ELSE 0)

\* One iteration of "for hour, next_interval in enumerate(hourly_intervals[1:], 1)".
\* st = [detailed, start_time]
convert_hour(st, actions, hour) ==
    LET current_action == actions[hour - 1]
        next_action == actions[hour]
        wake_up == needs_wake_up(current_action, next_action, hour)
        end_time == closing_end_time(wake_up, hour)
        closed == IF st.start_time # end_time
                  THEN Append(st.detailed,
                              regular_interval(st.detailed, current_action,
                                               st.start_time, end_time))
                  ELSE st.detailed
        woken == IF wake_up
                 THEN Append(closed,
                             create_detailed_interval(
                                 Len(closed) + 1, "load-first",
                                 hhmm(hour - 1, 45), hhmm(hour - 1, 59),
                                 TRUE, FALSE, 0))
                 ELSE closed
    IN IF behavior_changed(current_action, next_action)
       THEN [detailed |-> woken, start_time |-> interval_start_time(hour)]
       ELSE st

RECURSIVE convert_hours(_, _, _)
convert_hours(st, actions, hour) ==
    IF hour >= Cardinality(DOMAIN actions) THEN st
    ELSE convert_hours(convert_hour(st, actions, hour), actions, hour + 1)

\* _consolidate_and_convert, first half: the detailed intervals.
detailed_intervals_of(actions) ==
    LET n == Cardinality(DOMAIN actions)
        st == convert_hours([detailed |-> << >>,
                             start_time |-> interval_start_time(0)],
                            actions, 1)
        last_action == actions[n - 1]
        regular == IF st.start_time # hhmm(23, 44)
                   THEN Append(st.detailed,
                               regular_interval(st.detailed, last_action,
                                                st.start_time, hhmm(23, 44)))
                   ELSE st.detailed
    IN Append(regular,
              create_detailed_interval(Len(regular) + 1, "load-first",
                                       hhmm(23, 45), hhmm(23, 59),
                                       TRUE, FALSE, 0))

\* One iteration of "for i, interval in enumerate(self.detailed_intervals[:-1])";
\* i is the 1-based position.  st = [tou, current_start, open]
merge_interval(st, detailed, i) ==
    IF detailed[i].batt_mode = "battery-first"
    THEN IF ~ st.open
         THEN [st EXCEPT !.current_start = detailed[i].start_time, !.open = TRUE]
         ELSE st
    ELSE IF st.open
         THEN [ tou |-> Append(st.tou,
                               create_tou_interval(Len(st.tou) + 1,
                                                   st.current_start,
                                                   detailed[i - 1].end_time)),
                current_start |-> 0, open |-> FALSE ]
         ELSE st

RECURSIVE merge_intervals(_, _, _)
merge_intervals(st, detailed, i) ==
    IF i > Len(detailed) - 1 THEN st
    ELSE merge_intervals(merge_interval(st, detailed, i), detailed, i + 1)

\* _consolidate_and_convert, second half: the battery-first periods.
tou_intervals_of_closed_runs(detailed) ==
    merge_intervals([tou |-> << >>, current_start |-> 0, open |-> FALSE],
                    detailed, 1).tou
tou_intervals_of(detailed) ==
    LET st == merge_intervals([tou |-> << >>, current_start |-> 0, open |-> FALSE],
                              detailed, 1)
    IN IF st.open
       THEN Append(st.tou,
                   create_tou_interval(Len(st.tou) + 1, st.current_start,
                                       detailed[Len(detailed) - 1].end_time))
       ELSE st.tou

\* GrowattScheduleManager.get_daily_TOU_settings
get_daily_TOU_settings_untrimmed(tou) == tou
get_daily_TOU_settings(tou) ==
    IF tou = << >> THEN << >>
    ELSE SubSeq(tou, 1, Min(Len(tou), max_intervals))

\* ------------------------------------------------------------------------
\* system.py: facade
\* ------------------------------------------------------------------------
\* _validate_hour accepts 0..23
LAST_HOUR_OF_DAY == 23

\* Values of the state-of-charge sensor and of the inverter's discharge rate.
SocValues == {BATTERY_MIN_SOC, 50}
DischargeRates == {0, 50, 100}
\* Hours handed to the facade: invalid ones, the hours of the plan, and a
\* valid hour of the day for which the plan has no interval.
CallHours == (-1 .. NHours) \cup {LAST_HOUR_OF_DAY + 1}

\* Settings of the facade.
FacadeConfigs ==
    {c \in PlannerConfigs : c.total_capacity = 100 /\ c.cycle_cost = 4}

\* What the price source can return for a day: nothing, or a price list
\* (here the lists that alternate between two of the extreme prices).
NoPrices == << >>
DayPrices ==
    { [h \in Hours |-> IF h % 2 = 0 THEN a ELSE b]
        : a, b \in {0, MaxPriceLevel * PriceStep} } \cup {NoPrices}

NoCall == [op |-> "none", hour |-> 0, ok |-> TRUE, matched |-> FALSE, repeat |-> FALSE]
EnvCall == [op |-> "env", hour |-> 0, ok |-> TRUE, matched |-> FALSE, repeat |-> FALSE]

validate_hour(hour) == hour >= 0 /\ hour <= LAST_HOUR_OF_DAY

\* _run_battery_optimization: the schedule built from the planner's result.
\* The planner under src/ has no initial_soc parameter and takes a scalar
\* hourly consumption; current_soc is read and logged but does not reach
\* the trajectory.
run_battery_optimization(price_entries, settings, current_soc) ==
    new_schedule(optimize_battery(price_entries, settings))

\* "if wanted != current: setter(wanted)"
setter_needed_always(wanted, current) == TRUE
setter_needed(wanted, current) == wanted # current

\* The state "unavailable" of the state-of-charge sensor: int() of it raises.
SOC_UNAVAILABLE == -1
SocReadings == SocValues \cup {SOC_UNAVAILABLE}

\* Number of service calls that succeed before one fails after all its
\* retries; NoFailure: every service call succeeds.
NoFailure == -1
FailurePoints(n) == (0 .. n - 1) \cup {NoFailure}

\* One step of a handler, in the order of execution.
NoSegment == [segment_id |-> 0, batt_mode |-> "", start_time |-> 0,
              end_time |-> 0, enabled |-> FALSE]
event(ev) == [ev |-> ev, segment |-> NoSegment]
segment_event(segment) == [ev |-> "set_inverter_time_segment", segment |-> segment]

\* The facade's mutable state and the inverter's settings, as a handler
\* sees and changes them.
facade_state(fail_after) ==
    [ grid_charge |-> grid_charge,
      discharge_rate |-> discharge_rate,
      current_schedule |-> current_schedule,
      detailed_intervals |-> detailed_intervals,
      tou_intervals |-> tou_intervals,
      planned_soc |-> planned_soc,
      charging_power_rate |-> charging_power_rate,
      budget |-> fail_after,
      raised |-> FALSE,
      matched |-> FALSE,
      calls |-> << >>,
      trace |-> << >> ]

raise(fs, ev) == [fs EXCEPT !.raised = TRUE, !.trace = Append(@, event(ev))]

\* HomeAssistantController.service_call_with_retry, as seen by its caller:
\* nothing is called in test mode, otherwise the call is made or fails for
\* good.
service_result(fs) ==
    IF test_mode THEN "test_mode"
    ELSE IF fs.budget = 0 THEN "failed"
    ELSE "called"

after_service_call(fs, ev) ==
    LET r == service_result(fs)
    IN [fs EXCEPT !.trace = IF r = "failed"
                            THEN Append(Append(@, ev), event("service_call_failed"))
                            ELSE Append(@, ev),
                  !.budget = IF r = "called" /\ @ > 0 THEN @ - 1 ELSE @,
                  !.raised = (r = "failed")]

\* HomeAssistantController.set_grid_charge
set_grid_charge(fs, enable) ==
    LET done == after_service_call(fs, event("set_grid_charge"))
    IN [done EXCEPT !.grid_charge =
                        IF service_result(fs) = "called" THEN enable ELSE @,
                    !.calls = Append(@, [setter |-> "set_grid_charge",
                                         value |-> enable,
                                         current |-> fs.grid_charge,
                                         service_call |-> ~ test_mode])]

\* HomeAssistantController.set_discharging_power_rate
set_discharging_power_rate(fs, rate) ==
    LET done == after_service_call(fs, event("set_discharging_power_rate"))
    IN [done EXCEPT !.discharge_rate =
                        IF service_result(fs) = "called" THEN rate ELSE @,
                    !.calls = Append(@, [setter |-> "set_discharging_power_rate",
                                         value |-> rate,
                                         current |-> fs.discharge_rate,
                                         service_call |-> ~ test_mode])]

\* HomeAssistantController.set_inverter_time_segment
set_inverter_time_segment(fs, segment) ==
    after_service_call(fs, segment_event(segment))

\* HomeAssistantController.disable_all_TOU_settings, segments from
\* segment_id on.
disable_all_TOU_settings_skipped(fs, segment_id) == fs
RECURSIVE disable_all_TOU_settings(_, _)
disable_all_TOU_settings(fs, segment_id) ==
    IF fs.raised \/ segment_id > 8 THEN fs
    ELSE disable_all_TOU_settings(
             set_inverter_time_segment(
                 fs, [segment_id |-> segment_id, batt_mode |-> "battery-first",
                      start_time |-> hhmm(0, 0), end_time |-> hhmm(23, 59),
                      enabled |-> FALSE]),
             segment_id + 1)

\* "for segment in daily_settings: if segment['enabled']: ..."
RECURSIVE write_segments(_, _, _)
write_segments(fs, daily_settings, i) ==
    IF fs.raised \/ i > Len(daily_settings) THEN fs
    ELSE write_segments(
             IF daily_settings[i].enabled
             THEN set_inverter_time_segment(fs, daily_settings[i])
             ELSE fs,
             daily_settings, i + 1)

\* _run_battery_optimization as a step of a handler: raises without prices
\* and when the state of charge cannot be read; otherwise the new schedule
\* is handed to the schedule manager and becomes the current one.
optimization_step(fs, price_entries) ==
    IF price_entries = NoPrices THEN raise(fs, "no_prices")
    ELSE IF has_controller /\ battery_soc = SOC_UNAVAILABLE
    THEN raise(fs, "soc_read_failed")
    ELSE LET current_soc == IF has_controller THEN battery_soc ELSE BATTERY_MIN_SOC
             schedule == run_battery_optimization(price_entries, cfg, current_soc)
             detailed == detailed_intervals_of(schedule.actions)
         IN [fs EXCEPT !.current_schedule = schedule,
                       !.detailed_intervals = detailed,
                       !.tou_intervals = tou_intervals_of(detailed),
                       !.planned_soc = current_soc,
                       !.trace = Append(@, event("plan"))]

\* BatterySystemManager.prepare_schedule
prepare_schedule(fs, price_entries) == optimization_step(fs, price_entries)

\* BatterySystemManager.apply_schedule, after the schedule is there.
apply_settings(fs, hour) ==
    LET settings == get_hourly_settings(fs.current_schedule, hour)
        matched == /\ settings.grid_charge = fs.grid_charge
                   /\ settings.discharge_rate = fs.discharge_rate
        gc == IF setter_needed(settings.grid_charge, fs.grid_charge)
              THEN set_grid_charge(fs, settings.grid_charge)
              ELSE fs
        dr == IF gc.raised THEN gc
              ELSE IF setter_needed(settings.discharge_rate, gc.discharge_rate)
              THEN set_discharging_power_rate(gc, settings.discharge_rate)
              ELSE gc
    IN IF ~ has_controller THEN raise(fs, "no_controller")
       ELSE [dr EXCEPT !.matched = matched]

\* BatterySystemManager.apply_schedule
apply_schedule(fs, hour, price_entries) ==
    LET cleared == [fs EXCEPT !.calls = << >>, !.matched = FALSE]
        planned == IF cleared.current_schedule = NoSchedule
                   THEN prepare_schedule(cleared, price_entries)
                   ELSE cleared
    IN IF ~ validate_hour(hour) THEN raise(cleared, "invalid_hour")
       ELSE IF planned.raised THEN planned
       ELSE apply_settings(planned, hour)

\* BatterySystemManager.update_state
update_state(fs, hour, price_entries, consumption_read) ==
    IF ~ validate_hour(hour) THEN raise(fs, "invalid_hour")
    ELSE IF ~ has_controller THEN raise(fs, "no_controller")
    ELSE IF ~ consumption_read THEN raise(fs, "consumption_read_failed")
    ELSE IF battery_soc = SOC_UNAVAILABLE THEN raise(fs, "soc_read_failed")
    ELSE apply_schedule([fs EXCEPT !.trace = Append(@, event("update_consumption"))],
                        hour, price_entries)

\* BatterySystemManager.prepare_next_day_schedule; its return value is
\* ~ raised.
prepare_next_day_schedule_clearing(fs, price_entries) ==
    raise(disable_all_TOU_settings(fs, 1), "no_prices")
prepare_next_day_schedule(fs, price_entries) ==
    LET planned == optimization_step(fs, price_entries)
        disabled == disable_all_TOU_settings(planned, 1)
    IN IF price_entries = NoPrices THEN raise(fs, "no_prices")
       ELSE IF planned.raised THEN planned
       ELSE IF ~ has_controller THEN raise(planned, "no_controller")
       ELSE IF disabled.raised THEN disabled
       ELSE write_segments(disabled,
                           get_daily_TOU_settings(disabled.tou_intervals), 1)

\* ------------------------------------------------------------------------
\* power_monitor.py: HomePowerMonitor
\* ------------------------------------------------------------------------
\* HomePowerMonitor(..., step_size: int = 5)
step_size == 5
\* battery_settings.charging_power_rate, percent
BATTERY_DEFAULT_CHARGING_POWER_RATE == 40

\* Home settings: voltage (V), fuse current per phase (A) and safety
\* margin (here in percent).
HomeSettings == [voltage |-> 230, max_fuse_current |-> 25, safety_margin_pct |-> 95]

\* max_power_per_phase = voltage * max_fuse_current * safety_margin, in
\* hundredths of a watt.  The percentages of the monitor are fractions of
\* this denominator: a percentage p is kept as the integer p * pct_den.
max_power_per_phase(home) ==
    home.voltage * home.max_fuse_current * home.safety_margin_pct
pct_den(home) == max_power_per_phase(home)
as_pct(whole_percent, home) == whole_percent * pct_den(home)

\* get_current_phase_loads_w: load of each phase in watts.
get_current_phase_loads_w(currents, home) ==
    [i \in 1 .. 3 |-> currents[i] * home.voltage]

max3(a, b, c) == Max(a, Max(b, c))

\* calculate_available_charging_power: (l / max_power_per_phase) * 100 for
\* the most loaded phase, what is left of 100%, limited by the configured
\* charging power rate and by 0.
available_unlimited(available_pct, configured_pct) == Max(0, available_pct)
available_limited(available_pct, configured_pct) ==
    Max(0, Min(available_pct, configured_pct))

calculate_available_charging_power(currents, home) ==
    LET loads == get_current_phase_loads_w(currents, home)
        max_load_pct == max3(loads[1], loads[2], loads[3]) * 100 * 100
        available_pct == as_pct(100, home) - max_load_pct
    IN available_limited(available_pct,
                         as_pct(BATTERY_DEFAULT_CHARGING_POWER_RATE, home))

\* The step of adjust_battery_charging from current_power towards
\* target_power.
new_power_of(target_power, current_power, home) ==
    IF target_power > as_pct(current_power, home)
    THEN Min(as_pct(current_power + step_size, home), target_power)
    ELSE Max(as_pct(current_power - step_size, home), target_power)

Abs(x) == IF x < 0 THEN 0 - x ELSE x

\* "if abs(new_power - current_power) >= self.step_size"
worth_writing(new_power, current_power, home) ==
    Abs(new_power - as_pct(current_power, home)) >= as_pct(step_size, home)

\* int(new_power)
int_of(new_power, home) == new_power \div pct_den(home)

\* HomeAssistantController.set_charging_power_rate
set_charging_power_rate(fs, rate) ==
    LET done == after_service_call(fs, event("set_charging_power_rate"))
    IN [done EXCEPT !.charging_power_rate =
                        IF service_result(fs) = "called" THEN rate ELSE @]

\* "if not self.controller.grid_charge_enabled(): return"
monitor_active_always(enabled) == TRUE
monitor_active(enabled) == enabled

\* HomePowerMonitor.adjust_battery_charging; phase_read tells whether the
\* controller delivers the phase currents.
adjust_battery_charging(fs, currents, phase_read) ==
    IF ~ monitor_active(fs.grid_charge) THEN fs
    ELSE IF ~ phase_read THEN raise(fs, "phase_read_failed")
    ELSE LET target_power == calculate_available_charging_power(currents, HomeSettings)
             current_power == fs.charging_power_rate
             new_power == new_power_of(target_power, current_power, HomeSettings)
         IN IF worth_writing(new_power, current_power, HomeSettings)
            THEN set_charging_power_rate(fs, int_of(new_power, HomeSettings))
            ELSE fs

\* ------------------------------------------------------------------------
\* consumption_manager.py: ConsumptionManager
\* ------------------------------------------------------------------------
\* Consumption settings, in tenths of kWh: the default prediction of an hour
\* and the smallest consumption taken as valid.
ConsumptionSettings == [default_hourly |-> 45, min_valid |-> 1]

\* _update_predictions needs this many actual values and averages as many.
RECENT_VALUES == 3

\* Predictions are kept as numerators over RECENT_VALUES, so that the mean
\* "sum(recent_values) / len(recent_values)" is exact.
as_prediction(tenths) == tenths * RECENT_VALUES

\* The manager right after __init__.
NoSamples == << >>
initial_predictions ==
    [h \in 0 .. LAST_HOUR_OF_DAY |-> as_prediction(ConsumptionSettings.default_hourly)]

\* The manager's state as update_consumption sees and changes it.
consumption_state ==
    [ predictions |-> predictions,
      actual_consumption |-> actual_consumption,
      soc_of_hour |-> soc_of_hour,
      update_order |-> update_order,
      raised |-> FALSE ]

\* "if not 0 <= hour <= 23"
valid_hour(hour) == 0 <= hour /\ hour <= LAST_HOUR_OF_DAY
\* "if not 0 <= soc <= 100"
valid_soc_any(soc) == TRUE
valid_soc(soc) == 0 <= soc /\ soc <= 100
\* "if grid_import < 0"
valid_grid_import(grid_import) == grid_import >= 0

rejected(cm) == [cm EXCEPT !.raised = TRUE]

\* update_battery_soc(hour, soc)
update_battery_soc(cm, hour, soc) ==
    IF ~ valid_hour(hour) THEN rejected(cm)
    ELSE IF ~ valid_soc(soc) THEN rejected(cm)
    ELSE [cm EXCEPT !.soc_of_hour = (hour :> soc) @@ @]

\* "prev_hour = (hour - 1) % 24"
prev_hour_of_day(hour) == hour - 1
prev_hour(hour) == (hour - 1) % (LAST_HOUR_OF_DAY + 1)

\* calculate_energy_change(hour): None, or the change in tenths of kWh.
calculate_energy_change(cm, hour, total_capacity) ==
    IF hour \notin DOMAIN cm.soc_of_hour
    THEN [known |-> FALSE, change |-> 0]
    ELSE IF prev_hour(hour) \notin DOMAIN cm.soc_of_hour
    THEN [known |-> FALSE, change |-> 0]
    ELSE [known |-> TRUE,
          change |-> ((cm.soc_of_hour[hour] - cm.soc_of_hour[prev_hour(hour)])
                        * total_capacity) \div 100]

\* "sorted(self._actual_consumption.values())[-3:]", summed: the sum of the
\* n largest values of f over the given hours.
RECURSIVE sum_of_largest(_, _, _)
sum_of_largest(f, hours, n) ==
    IF n = 0 \/ hours = {} THEN 0
    ELSE LET top == CHOOSE h \in hours : \A g \in hours : f[g] <= f[h]
         IN f[top] + sum_of_largest(f, hours \ {top}, n - 1)

\* _update_predictions(current_hour)
update_predictions(cm, current_hour) ==
    IF Cardinality(DOMAIN cm.actual_consumption) < RECENT_VALUES THEN cm
    ELSE LET new_prediction == sum_of_largest(cm.actual_consumption,
                                              DOMAIN cm.actual_consumption,
                                              RECENT_VALUES)
         IN [cm EXCEPT !.predictions =
                [h \in 0 .. LAST_HOUR_OF_DAY |->
                    IF h > current_hour THEN new_prediction ELSE @[h]]]

\* "actual_consumption = max(self.settings.min_valid, actual_consumption)"
ensure_min_valid(actual) == Max(ConsumptionSettings.min_valid, actual)

\* The record of an hour's value; update_order lists the hours in the
\* order of their records, the most recent record last.
record_actual(cm, hour, actual) ==
    [cm EXCEPT !.actual_consumption = (hour :> actual) @@ @,
               !.update_order = Append(@, hour)]

\* update_consumption(hour, grid_import, battery_soc); soc_given is FALSE
\* when battery_soc is None.
update_consumption(cm, hour, grid_import, soc_given, soc, total_capacity) ==
    IF ~ valid_hour(hour) THEN rejected(cm)
    ELSE IF ~ valid_grid_import(grid_import) THEN rejected(cm)
    ELSE LET sampled == IF soc_given THEN update_battery_soc(cm, hour, soc) ELSE cm
             energy_change == calculate_energy_change(sampled, hour, total_capacity)
             actual == IF energy_change.known /\ energy_change.change # 0
                       THEN grid_import + energy_change.change
                       ELSE grid_import
         IN IF sampled.raised THEN sampled
            ELSE update_predictions(
                     record_actual(sampled, hour, ensure_min_valid(actual)),
                     hour)

\* The components as the constructors leave them.
NoSettings == [asked |-> FALSE, loaded |-> FALSE, hour |-> 0,
               grid_charge |-> FALSE, discharge_rate |-> 0]
ComponentsIdle ==
    /\ hourly_settings = NoSettings
    /\ charging_power_rate = BATTERY_DEFAULT_CHARGING_POWER_RATE
    /\ phase_currents = << 0, 0, 0 >>
    /\ predictions = initial_predictions
    /\ actual_consumption = NoSamples
    /\ soc_of_hour = NoSamples
    /\ update_order = << >>

\* pyscript/bess_controller.py: the triggered functions.
Tasks == {"run_on_startup", "run_hourly_adaptation", "run_battery_monitor",
          "periodic_power_monitoring", "prepare_next_day"}

\* HomeAssistantController.max_attempts and retry_delay (seconds)
max_attempts == 4
retry_delay == 4

\* A function that is not running.  A running one is inside
\* service_call_with_retry: pc is "calling" while service.call is awaited,
\* "sleeping" in task.sleep, "returned" or "raised" when the call is over;
\* attempt is the loop variable, waited the seconds slept in this call
\* (both are dropped on return).
IdleTask == [pc |-> "idle", attempt |-> 0, waited |-> 0]

\* No function is running.
TasksIdle == tasks = [t \in Tasks |-> IdleTask]

\* Schedule and intervals of the facade, to compare a call's outcome with.
NoSnapshot == [current_schedule |-> NoSchedule, detailed_intervals |-> << >>,
               tou_intervals |-> << >>]
snapshot == [current_schedule |-> current_schedule,
             detailed_intervals |-> detailed_intervals,
             tou_intervals |-> tou_intervals]

\* The facade is not used (planner runs on its own).
FacadeIdle ==
    /\ grid_charge = FALSE
    /\ discharge_rate = 0
    /\ battery_soc = BATTERY_MIN_SOC
    /\ test_mode = FALSE
    /\ current_schedule = NoSchedule
    /\ sm_schedule = NoSchedule
    /\ planned_soc = BATTERY_MIN_SOC
    /\ last_call = NoCall
    /\ calls = << >>
    /\ has_controller = TRUE
    /\ detailed_intervals = << >>
    /\ tou_intervals = << >>
    /\ before_call = NoSnapshot
    /\ trace = << >>
    /\ TasksIdle
    /\ ComponentsIdle

\* A call of optimize_battery with arbitrary arguments, up to the loop.
PlannerInit ==
    /\ prices \in PriceVectors
    /\ cfg \in PlannerConfigs
    /\ trades = find_profitable_trades(prices, cfg.cycle_cost, MIN_PROFIT_THRESHOLD)
    /\ idx = 1
    /\ plan = initial_plan_state(cfg)
    /\ pc = "loop"
    /\ result = NoResult
    /\ FacadeIdle

LoopRunning_on_any_budget ==
    /\ pc = "loop"
    /\ idx <= Len(trades)
LoopRunning ==
    /\ pc = "loop"
    /\ idx <= Len(trades)
    /\ plan.energy_for_discharge > 0

\* One iteration that leaves the plan as it is (continue, or plan rejected).
SkipTrade ==
    /\ LoopRunning
    /\ trade_iteration(plan, trades, trades[idx], cfg) = plan
    /\ idx' = idx + 1
    /\ UNCHANGED << pc, prices, cfg, trades, plan, result, facade_vars >>

\* One iteration that executes the trade.
CommitTrade ==
    /\ LoopRunning
    /\ trade_iteration(plan, trades, trades[idx], cfg) # plan
    /\ plan' = trade_iteration(plan, trades, trades[idx], cfg)
    /\ idx' = idx + 1
    /\ UNCHANGED << pc, prices, cfg, trades, result, facade_vars >>

\* Loop exit (break or list exhausted), cost accounting and return.
ReturnResult ==
    /\ pc = "loop"
    /\ ~ LoopRunning
    /\ result' = cost_summary(cfg, prices, plan.actions)
    /\ pc' = "done"
    /\ UNCHANGED << prices, cfg, trades, idx, plan, facade_vars >>

PlannerNext == SkipTrade \/ CommitTrade \/ ReturnResult

PlannerSpec == PlannerInit /\ [][PlannerNext]_vars


\* ------------------------------------------------------------------------
\* Facade specification
\* ------------------------------------------------------------------------
FacadeStart ==
    /\ cfg \in FacadeConfigs
    /\ pc = "idle"
    /\ prices = [h \in Hours |-> 0]
    /\ trades = << >>
    /\ idx = 1
    /\ plan = initial_plan_state(cfg)
    /\ result = NoResult
    /\ grid_charge = FALSE
    /\ discharge_rate = 0
    /\ battery_soc \in SocValues
    /\ has_controller \in BOOLEAN
    /\ test_mode \in (IF has_controller THEN BOOLEAN ELSE {FALSE})
    /\ current_schedule = NoSchedule
    /\ sm_schedule = NoSchedule
    /\ planned_soc = BATTERY_MIN_SOC
    /\ last_call = NoCall
    /\ calls = << >>
    /\ detailed_intervals = << >>
    /\ tou_intervals = << >>
    /\ before_call = NoSnapshot
    /\ trace = << >>
    /\ TasksIdle

FacadeInit == FacadeStart /\ ComponentsIdle

\* Hours of the clock at a tick: the first and the last hour of the plan
\* and the last hour of the day.
TickHours == {0, NHours - 1, LAST_HOUR_OF_DAY}

\* Where a service call of prepare_next_day_schedule fails for good: the
\* first or the last call of disable_all_TOU_settings, or the first or the
\* second segment written after it.
NextDayFailurePoints == {NoFailure, 0, 7, 8, 9}

\* Where a service call of a handler may fail for good: nowhere in test
\* mode, where no service is called.
HandlerFailurePoints(n) == IF test_mode THEN {NoFailure} ELSE FailurePoints(n)

\* prepare_schedule(): fetch today's prices and optimize; raises when the
\* price list is empty.
PrepareSchedule ==
    \E price_entries \in DayPrices :
        \E fs \in {prepare_schedule(facade_state(NoFailure), price_entries)} :
            /\ grid_charge' = fs.grid_charge
            /\ discharge_rate' = fs.discharge_rate
            /\ current_schedule' = fs.current_schedule
            /\ sm_schedule' = fs.current_schedule
            /\ detailed_intervals' = fs.detailed_intervals
            /\ tou_intervals' = fs.tou_intervals
            /\ planned_soc' = fs.planned_soc
            /\ calls' = fs.calls
            /\ trace' = fs.trace
            /\ before_call' = snapshot
            /\ last_call' = [op |-> "prepare_schedule", hour |-> 0, ok |-> ~ fs.raised,
                             matched |-> fs.matched, repeat |-> FALSE]
            /\ UNCHANGED << planner_vars, cfg, battery_soc, test_mode,
                             has_controller, task_vars, component_vars >>

\* apply_schedule(hour)
ApplySchedule ==
    \E hour \in CallHours,
       price_entries \in (IF current_schedule = NoSchedule THEN DayPrices ELSE {NoPrices}),
       fail_after \in HandlerFailurePoints(2) :
        \E fs \in {apply_schedule(facade_state(fail_after), hour, price_entries)} :
            /\ grid_charge' = fs.grid_charge
            /\ discharge_rate' = fs.discharge_rate
            /\ current_schedule' = fs.current_schedule
            /\ sm_schedule' = fs.current_schedule
            /\ detailed_intervals' = fs.detailed_intervals
            /\ tou_intervals' = fs.tou_intervals
            /\ planned_soc' = fs.planned_soc
            /\ calls' = fs.calls
            /\ trace' = fs.trace
            /\ before_call' = snapshot
            /\ last_call' = [op |-> "apply_schedule", hour |-> hour, ok |-> ~ fs.raised,
                             matched |-> fs.matched, repeat |-> (/\ last_call.op = "apply_schedule"
                                              /\ last_call.ok
                                              /\ last_call.hour = hour)]
            /\ UNCHANGED << planner_vars, cfg, battery_soc, test_mode,
                             has_controller, task_vars, component_vars >>

\* prepare_next_day_schedule()
PrepareNextDay ==
    \E price_entries \in DayPrices,
       fail_after \in (IF test_mode THEN {NoFailure} ELSE NextDayFailurePoints) :
        \E fs \in {prepare_next_day_schedule(facade_state(fail_after), price_entries)} :
            /\ grid_charge' = fs.grid_charge
            /\ discharge_rate' = fs.discharge_rate
            /\ current_schedule' = fs.current_schedule
            /\ sm_schedule' = fs.current_schedule
            /\ detailed_intervals' = fs.detailed_intervals
            /\ tou_intervals' = fs.tou_intervals
            /\ planned_soc' = fs.planned_soc
            /\ calls' = fs.calls
            /\ trace' = fs.trace
            /\ before_call' = snapshot
            /\ last_call' = [op |-> "prepare_next_day_schedule", hour |-> 0, ok |-> ~ fs.raised,
                             matched |-> fs.matched, repeat |-> FALSE]
            /\ UNCHANGED << planner_vars, cfg, battery_soc, test_mode,
                             has_controller, task_vars, component_vars >>

\* run_hourly_adaptation(): update_state, prepare_schedule, apply_schedule;
\* an exception ends the function.
HourlyAdaptation ==
    \E hour \in TickHours, price_entries \in DayPrices,
       consumption_read \in BOOLEAN, fail_after \in HandlerFailurePoints(2) :
        \E updated \in {update_state(facade_state(fail_after), hour,
                                     price_entries, consumption_read)} :
        \E planned \in {IF updated.raised THEN updated
                        ELSE prepare_schedule(updated, price_entries)} :
        \E fs \in {IF planned.raised THEN planned
                   ELSE apply_schedule(planned, hour, price_entries)} :
            /\ grid_charge' = fs.grid_charge
            /\ discharge_rate' = fs.discharge_rate
            /\ current_schedule' = fs.current_schedule
            /\ sm_schedule' = fs.current_schedule
            /\ detailed_intervals' = fs.detailed_intervals
            /\ tou_intervals' = fs.tou_intervals
            /\ planned_soc' = fs.planned_soc
            /\ calls' = fs.calls
            /\ trace' = fs.trace
            /\ before_call' = snapshot
            /\ last_call' = [op |-> "run_hourly_adaptation", hour |-> hour, ok |-> ~ fs.raised,
                             matched |-> fs.matched, repeat |-> FALSE]
            /\ UNCHANGED << planner_vars, cfg, battery_soc, test_mode,
                             has_controller, task_vars, component_vars >>

\* The facade right after "system = BatterySystemManager(controller=controller)":
\* the module is loaded anew at startup and at every reload.
fresh_facade_state(fail_after) ==
    [facade_state(fail_after) EXCEPT !.current_schedule = NoSchedule,
                                     !.detailed_intervals = << >>,
                                     !.tou_intervals = << >>,
                                     !.planned_soc = BATTERY_MIN_SOC]

\* run_on_startup(): prepare_schedule, apply_schedule, update_state; an
\* exception ends the function.
Startup ==
    \E hour \in TickHours, price_entries \in DayPrices,
       consumption_read \in BOOLEAN, fail_after \in HandlerFailurePoints(1) :
        \E planned \in {prepare_schedule(fresh_facade_state(fail_after),
                                         price_entries)} :
        \E applied \in {IF planned.raised THEN planned
                        ELSE apply_schedule(planned, hour, price_entries)} :
        \E fs \in {IF applied.raised THEN applied
                   ELSE update_state(applied, hour, price_entries,
                                     consumption_read)} :
            /\ grid_charge' = fs.grid_charge
            /\ discharge_rate' = fs.discharge_rate
            /\ current_schedule' = fs.current_schedule
            /\ sm_schedule' = fs.current_schedule
            /\ detailed_intervals' = fs.detailed_intervals
            /\ tou_intervals' = fs.tou_intervals
            /\ planned_soc' = fs.planned_soc
            /\ calls' = fs.calls
            /\ trace' = fs.trace
            /\ before_call' = snapshot
            /\ last_call' = [op |-> "run_on_startup", hour |-> hour, ok |-> ~ fs.raised,
                             matched |-> fs.matched, repeat |-> FALSE]
            /\ UNCHANGED << planner_vars, cfg, battery_soc, test_mode,
                             has_controller, task_vars, component_vars >>

\* What the environment leaves of the last call's record.
Forgotten ==
    /\ last_call' = EnvCall
    /\ calls' = << >>
    /\ trace' = << >>
    /\ before_call' = snapshot

\* The battery's state of charge moves, or its sensor stops reporting.
SocChanges ==
    /\ has_controller
    /\ \E soc \in SocReadings : soc # battery_soc /\ battery_soc' = soc
    /\ Forgotten
    /\ UNCHANGED << planner_vars, cfg, grid_charge, discharge_rate, test_mode,
                    current_schedule, sm_schedule, planned_soc, has_controller,
                    detailed_intervals, tou_intervals, task_vars, component_vars >>

\* The inverter's settings are changed from outside the facade.
InverterDrift ==
    /\ has_controller
    /\ \E gc \in BOOLEAN, dr \in DischargeRates :
          /\ << gc, dr >> # << grid_charge, discharge_rate >>
          /\ grid_charge' = gc
          /\ discharge_rate' = dr
    /\ Forgotten
    /\ UNCHANGED << planner_vars, cfg, battery_soc, test_mode,
                    current_schedule, sm_schedule, planned_soc, has_controller,
                    detailed_intervals, tou_intervals, task_vars, component_vars >>

\* The facade called directly.
FacadeNext ==
    \/ PrepareSchedule \/ ApplySchedule \/ PrepareNextDay
    \/ SocChanges \/ InverterDrift

FacadeSpec == FacadeInit /\ [][FacadeNext]_vars

\* The facade driven by the triggered functions that plan and apply.
TickNext == HourlyAdaptation \/ Startup \/ SocChanges \/ InverterDrift

\* pyscript/bess_controller.py builds the facade with a controller.
TickInit ==
    /\ FacadeInit
    /\ has_controller
    /\ cfg.hourly_consumption = 52

TickSpec == TickInit /\ [][TickNext]_vars

\* ------------------------------------------------------------------------
\* Task specification: the triggered functions and their service calls
\* ------------------------------------------------------------------------
TaskInit ==
    /\ FacadeInit
    /\ has_controller
    /\ battery_soc = BATTERY_MIN_SOC
    /\ cfg.hourly_consumption = 52

only_tasks_change ==
    UNCHANGED << planner_vars, cfg, grid_charge, discharge_rate, battery_soc,
                 test_mode, current_schedule, sm_schedule, planned_soc,
                 last_call, calls, has_controller, detailed_intervals,
                 tou_intervals, before_call, trace, component_vars >>

\* A time trigger fires and the function runs up to its first service call.
\* In test mode service_call_with_retry returns at once, the function never
\* waits and is over within the step.
Trigger(t) ==
    /\ tasks[t].pc = "idle"
    /\ tasks' = [tasks EXCEPT ![t] =
                    IF test_mode
                    THEN [pc |-> "returned", attempt |-> 0, waited |-> 0]
                    ELSE [pc |-> "calling", attempt |-> 0, waited |-> 0]]
    /\ only_tasks_change

\* service.call succeeds: "return  # Success, exit function".
AttemptSucceeds(t) ==
    /\ tasks[t].pc = "calling"
    /\ tasks' = [tasks EXCEPT ![t] = [pc |-> "returned", attempt |-> 0, waited |-> 0]]
    /\ only_tasks_change

\* "if attempt < self.max_attempts - 1:  # Not the last attempt"
not_last_attempt_one_more(attempt) == attempt < max_attempts
not_last_attempt(attempt) == attempt < max_attempts - 1

\* service.call raises: sleep before the next attempt, or re-raise after
\* the last one.
AttemptFails(t) ==
    /\ tasks[t].pc = "calling"
    /\ tasks' = [tasks EXCEPT ![t].pc =
                    IF not_last_attempt(tasks[t].attempt)
                    THEN "sleeping" ELSE "raised"]
    /\ only_tasks_change

\* task.sleep(retry_delay) is over: next iteration of the loop.
Wake(t) ==
    /\ tasks[t].pc = "sleeping"
    /\ tasks' = [tasks EXCEPT ![t] =
                    [pc |-> "calling", attempt |-> @.attempt + 1,
                     waited |-> @.waited + retry_delay]]
    /\ only_tasks_change

\* After a service call: the function issues its next service call, or it
\* is over; an exception ends it.
Continue(t) ==
    /\ tasks[t].pc = "returned"
    /\ ~ test_mode
    /\ tasks' = [tasks EXCEPT ![t] = [pc |-> "calling", attempt |-> 0, waited |-> 0]]
    /\ only_tasks_change

Finish(t) ==
    /\ tasks[t].pc \in {"returned", "raised"}
    /\ tasks' = [tasks EXCEPT ![t] = IdleTask]
    /\ only_tasks_change

TaskStep(t) ==
    \/ Trigger(t) \/ AttemptSucceeds(t) \/ AttemptFails(t)
    \/ Wake(t) \/ Continue(t) \/ Finish(t)

TaskNext == \E t \in Tasks : TaskStep(t)

TaskSpec == TaskInit /\ [][TaskNext]_vars

\* Every awaited service call comes back, with a result or an error, and
\* every sleep ends.
TaskFairness ==
    \A t \in Tasks :
        /\ WF_vars(AttemptSucceeds(t) \/ AttemptFails(t))
        /\ WF_vars(Wake(t))

TaskLiveSpec == TaskSpec /\ TaskFairness

\* ------------------------------------------------------------------------
\* Projector specification: GrowattScheduleManager on schedules of a day
\* ------------------------------------------------------------------------
HOURS_PER_DAY == 24

\* Actions of a charging, an idle and a discharging hour.
HourActions == {MAX_CHARGE_RATE, 0, -52}

\* Lengths of the blocks of equal hours a day is made of.
BlockLengths == {1, 2, 3, 6}

\* The schedules of a day: blocks of block_length hours whose actions repeat
\* a pattern of NHours actions.
DaySchedules ==
    { [ actions |-> [h \in 0 .. HOURS_PER_DAY - 1 |->
                        pattern[(h \div block_length) % NHours]],
        state_of_energy |-> [h \in 0 .. HOURS_PER_DAY |-> 0] ]
      : pattern \in [0 .. NHours - 1 -> HourActions],
        block_length \in BlockLengths }

ProjectorInit ==
    /\ FacadeInit
    /\ TaskInit
    /\ ~ test_mode

\* GrowattScheduleManager.apply_schedule(schedule)
GrowattApplySchedule ==
    \E schedule \in DaySchedules :
        /\ sm_schedule' = schedule
        /\ detailed_intervals' = detailed_intervals_of(schedule.actions)
        /\ tou_intervals' = tou_intervals_of(detailed_intervals')
        /\ UNCHANGED << planner_vars, cfg, grid_charge, discharge_rate,
                        battery_soc, test_mode, current_schedule, planned_soc,
                        last_call, calls, has_controller, before_call, trace,
                        task_vars, component_vars >>

ProjectorNext == GrowattApplySchedule

ProjectorSpec == ProjectorInit /\ [][ProjectorNext]_vars

\* ------------------------------------------------------------------------
\* Guard specification: periodic_power_monitoring on changing phase loads
\* ------------------------------------------------------------------------
\* Currents of a phase, ampere: none, moderate ones, one that leaves less
\* than the configured rate, and one above the fuse limit.
PhaseCurrentValues == {0, 12, 15, 17, 26}
PhaseCurrents == [1 .. 3 -> PhaseCurrentValues]

\* Charging power rates the inverter can hold when the monitor starts.
StartRates == {0, 20, 38, BATTERY_DEFAULT_CHARGING_POWER_RATE}

\* The schedule and the inverter's settings when a tick of the monitor
\* starts.
monitor_snapshot ==
    [ current_schedule |-> current_schedule,
      detailed_intervals |-> detailed_intervals,
      tou_intervals |-> tou_intervals,
      sm_schedule |-> sm_schedule,
      grid_charge |-> grid_charge,
      discharge_rate |-> discharge_rate,
      charging_power_rate |-> charging_power_rate ]

GuardInit ==
    /\ FacadeStart
    /\ has_controller
    /\ battery_soc = BATTERY_MIN_SOC
    /\ cfg.hourly_consumption = 52
    /\ hourly_settings = NoSettings
    /\ charging_power_rate \in StartRates
    /\ phase_currents \in PhaseCurrents
    /\ predictions = initial_predictions
    /\ actual_consumption = NoSamples
    /\ soc_of_hour = NoSamples
    /\ update_order = << >>

\* periodic_power_monitoring(): system.adjust_charging_power(), which is
\* HomePowerMonitor.adjust_battery_charging(); an exception is logged.
GuardTick(phase_read, fail_after) ==
    \E fs \in {adjust_battery_charging(facade_state(fail_after),
                                       phase_currents, phase_read)} :
        /\ charging_power_rate' = fs.charging_power_rate
        /\ grid_charge' = fs.grid_charge
        /\ discharge_rate' = fs.discharge_rate
        /\ current_schedule' = fs.current_schedule
        /\ detailed_intervals' = fs.detailed_intervals
        /\ tou_intervals' = fs.tou_intervals
        /\ planned_soc' = fs.planned_soc
        /\ calls' = fs.calls
        /\ trace' = fs.trace
        /\ before_call' = monitor_snapshot
        /\ last_call' = [op |-> "adjust_charging_power", hour |-> 0,
                         ok |-> ~ fs.raised, matched |-> FALSE, repeat |-> FALSE]
        /\ UNCHANGED << planner_vars, cfg, battery_soc, test_mode, sm_schedule,
                        has_controller, task_vars, hourly_settings,
                        phase_currents, consumption_vars >>

AdjustChargingPower ==
    \E phase_read \in BOOLEAN, fail_after \in HandlerFailurePoints(1) :
        GuardTick(phase_read, fail_after)

\* The house draws other currents.
PhaseLoadsChange ==
    /\ phase_currents' \in PhaseCurrents \ {phase_currents}
    /\ last_call' = EnvCall
    /\ UNCHANGED << planner_vars, cfg, grid_charge, discharge_rate, battery_soc,
                    test_mode, current_schedule, sm_schedule, planned_soc,
                    calls, has_controller, detailed_intervals, tou_intervals,
                    before_call, trace, task_vars, hourly_settings,
                    charging_power_rate, consumption_vars >>

\* Grid charging is switched (by apply_schedule at the top of an hour).
GridChargeSwitches ==
    /\ grid_charge' = ~ grid_charge
    /\ last_call' = EnvCall
    /\ UNCHANGED << planner_vars, cfg, discharge_rate, battery_soc,
                    test_mode, current_schedule, sm_schedule, planned_soc,
                    calls, has_controller, detailed_intervals, tou_intervals,
                    before_call, trace, task_vars, component_vars >>

GuardNext == AdjustChargingPower \/ PhaseLoadsChange \/ GridChargeSwitches

GuardSpec == GuardInit /\ [][GuardNext]_vars

\* The monitor on phase loads that stay as they are, grid charging being
\* switched on and left on, every read and every service call succeeding:
\* the cron trigger fires every five minutes, so a tick that is due happens.
GuardSteadyInit == GuardInit /\ ~ test_mode

GridChargeOn ==
    /\ ~ grid_charge
    /\ GridChargeSwitches

SteadyTick == GuardTick(TRUE, NoFailure)

GuardSteadyNext == SteadyTick \/ GridChargeOn

GuardSteadySpec ==
    /\ GuardSteadyInit
    /\ [][GuardSteadyNext]_vars
    /\ WF_vars(SteadyTick)
    /\ WF_vars(GridChargeOn)

\* ------------------------------------------------------------------------
\* Consumption specification: ConsumptionManager under update_consumption
\* ------------------------------------------------------------------------
\* Arguments of update_consumption: hours of the day and hours next to them,
\* grid import in tenths of kWh, state of charge in percent.
UpdateHours == {-1, 0, 1, 2, LAST_HOUR_OF_DAY, LAST_HOUR_OF_DAY + 1}
GridImports == {-10, 0, 5}
SocSamples == {-10, 40, 50, 101}

consumption_snapshot ==
    [ predictions |-> predictions,
      actual_consumption |-> actual_consumption,
      soc_of_hour |-> soc_of_hour ]

ConsumptionInit ==
    /\ FacadeInit
    /\ has_controller
    /\ ~ test_mode
    /\ battery_soc = BATTERY_MIN_SOC
    /\ cfg.hourly_consumption = 52

\* Hours of the clock from the hour of the first record to the given hour.
hours_since_first(hour) == (hour - update_order[1]) % (LAST_HOUR_OF_DAY + 1)

\* The hours arrive as the clock gives them, datetime.now().hour of the
\* caller: an hour of the day follows the last recorded hour and comes
\* before the clock is back at the first one.
in_clock_order(hour) ==
    \/ ~ valid_hour(hour)
    \/ update_order = << >>
    \/ hours_since_first(hour) > hours_since_first(update_order[Len(update_order)])

\* update_consumption(hour, grid_import, battery_soc).  The call is kept
\* with its arguments; matched tells that it left predictions, actuals and
\* samples as they were.
UpdateConsumption ==
    \E hour \in {h \in UpdateHours : in_clock_order(h)},
       grid_import \in GridImports, soc_given \in BOOLEAN :
    \E soc \in (IF soc_given THEN SocSamples ELSE {0}) :
    \E cm \in {update_consumption(consumption_state, hour, grid_import,
                                  soc_given, soc, cfg.total_capacity)} :
        /\ predictions' = cm.predictions
        /\ actual_consumption' = cm.actual_consumption
        /\ soc_of_hour' = cm.soc_of_hour
        /\ update_order' = cm.update_order
        /\ last_call' = [op |-> "update_consumption", hour |-> hour,
                         ok |-> ~ cm.raised,
                         matched |-> consumption_snapshot =
                                        [predictions |-> cm.predictions,
                                         actual_consumption |-> cm.actual_consumption,
                                         soc_of_hour |-> cm.soc_of_hour],
                         repeat |-> FALSE, grid_import |-> grid_import,
                         soc_given |-> soc_given, soc |-> soc]
        /\ UNCHANGED << planner_vars, cfg, grid_charge, discharge_rate,
                        battery_soc, test_mode, current_schedule,
                        sm_schedule, planned_soc, calls, has_controller,
                        detailed_intervals, tou_intervals, before_call, trace,
                        task_vars, hourly_settings, monitor_vars >>

ConsumptionNext == UpdateConsumption

ConsumptionSpec == ConsumptionInit /\ [][ConsumptionNext]_vars

\* ------------------------------------------------------------------------
\* Settings specification: get_hourly_settings on the schedules of a day
\* ------------------------------------------------------------------------
\* The schedule manager right after __init__.
SettingsInit == ProjectorInit

\* The first apply_schedule(schedule) of the manager.
FirstSchedule ==
    /\ sm_schedule = NoSchedule
    /\ GrowattApplySchedule

\* Hours asked for: the hours of the day and the ones next to them.
QueryHours == -1 .. HOURS_PER_DAY

\* GrowattScheduleManager.get_hourly_settings(hour)
GetHourlySettings ==
    \E hour \in QueryHours :
        \E settings \in {get_hourly_settings(sm_schedule, hour)} :
            /\ hourly_settings' = [asked |-> TRUE,
                                   loaded |-> sm_schedule # NoSchedule,
                                   hour |-> hour,
                                   grid_charge |-> settings.grid_charge,
                                   discharge_rate |-> settings.discharge_rate]
            /\ UNCHANGED << planner_vars, cfg, grid_charge, discharge_rate,
                            battery_soc, test_mode, current_schedule,
                            sm_schedule, planned_soc, last_call, calls,
                            has_controller, detailed_intervals, tou_intervals,
                            before_call, trace, task_vars, monitor_vars,
                            consumption_vars >>

SettingsNext == FirstSchedule \/ GetHourlySettings

SettingsSpec == SettingsInit /\ [][SettingsNext]_vars

\* ------------------------------------------------------------------------
\* Properties of the planner
\* ------------------------------------------------------------------------
RECURSIVE seq_sum(_)
seq_sum(s) == IF s = << >> THEN 0 ELSE Head(s) + seq_sum(Tail(s))

Clamp(x, lo, hi) == Min(Max(x, lo), hi)

\* Energy of one discharge plan that lands in hour h.
plan_amount_at(discharge_plan, h) ==
    seq_sum([i \in 1 .. Len(discharge_plan) |->
                IF discharge_plan[i].hour = h THEN discharge_plan[i].amount ELSE 0])

\* Discharge allocated to hour h, summed over all executed trades.
AllocatedDischarge(h) ==
    seq_sum([i \in 1 .. Len(plan.committed) |->
                plan_amount_at(plan.committed[i].discharge_plan, h)])

\* Discharge attributed to the charges executed at hour h.
AttributedDischarge(h) ==
    seq_sum([i \in 1 .. Len(plan.committed) |->
                IF plan.committed[i].charge_hour = h
                THEN plan_total(plan.committed[i].discharge_plan) ELSE 0])

CommittedTrades == {plan.committed[i] : i \in 1 .. Len(plan.committed)}
PlanEntries(t) == {t.discharge_plan[i] : i \in 1 .. Len(t.discharge_plan)}

\* C1: every slot of the state-of-energy trajectory stays within
\* [reserved_capacity, total_capacity], after any number of executed trades.
C1_SoEBounds ==
    \A h \in Slots :
        /\ cfg.reserved_capacity <= plan.state_of_energy[h]
        /\ plan.state_of_energy[h] <= cfg.total_capacity

\* Two trades executed and the trajectory touches the upper limit.
C1_Witness ==
    /\ pc = "done"
    /\ Len(plan.committed) >= 2
    /\ cfg.reserved_capacity < cfg.total_capacity
    /\ \E h \in Slots : plan.state_of_energy[h] = cfg.total_capacity

\* C2: in the returned result soe[h+1] = clamp(soe[h] + actions[h], reserved,
\* total) for every hour h.
C2_TrajectoryConsistent ==
    pc = "done" =>
        \A h \in Hours :
            plan.state_of_energy[h + 1] =
                Clamp(plan.state_of_energy[h] + plan.actions[h],
                      cfg.reserved_capacity, cfg.total_capacity)

\* C3: the discharge allocated to an hour, summed over all executed primary
\* and secondary discharges, never exceeds the hour's consumption, hence
\* actions[h] < 0 implies |actions[h]| <= consumption.
C3_NoExport ==
    \A h \in Hours :
        /\ AllocatedDischarge(h) <= cfg.hourly_consumption
        /\ plan.actions[h] < 0 => - plan.actions[h] <= cfg.hourly_consumption

\* An hour that received discharge from two executed trades and is used up.
C3_Witness ==
    \E h \in Hours :
        /\ Cardinality({i \in 1 .. Len(plan.committed) :
                           plan_amount_at(plan.committed[i].discharge_plan, h) > 0}) >= 2
        /\ AllocatedDischarge(h) = cfg.hourly_consumption
        /\ plan.actions[h] = - cfg.hourly_consumption

\* C4: in the returned result |actions[h]| <= max charge rate for every
\* hour, charging and discharging alike.
C4_PowerBound ==
    pc = "done" =>
        \A h \in Hours :
            /\ plan.actions[h] <= cfg.max_charge_rate
            /\ - plan.actions[h] <= cfg.max_charge_rate

\* C5: in the returned result every charge fits in the battery:
\* actions[h] > 0 implies actions[h] <= total - soe[h].
C5_ChargeFits ==
    pc = "done" =>
        \A h \in Hours :
            plan.actions[h] > 0 =>
                plan.actions[h] <= cfg.total_capacity - plan.state_of_energy[h]

\* C6: every executed (charge hour, discharge hour) pair, primary or
\* secondary, has the charge strictly before the discharge and a profit per
\* kWh of at least the minimum profit threshold.
C6_ProfitablePairs ==
    \A t \in CommittedTrades :
        \A e \in PlanEntries(t) :
            /\ t.charge_hour < e.hour
            /\ prices[e.hour] - prices[t.charge_hour] - cfg.cycle_cost
                   >= MIN_PROFIT_THRESHOLD

\* An executed trade whose plan needed a secondary discharge hour.
C6_Witness ==
    \E t \in CommittedTrades : Len(t.discharge_plan) >= 2

\* C7: a charge is executed only with a plan that places at least 80% of it
\* into later hours; for every hour with actions[h] > 0 the discharges
\* attributed to that charge sum to at least 0.8 * actions[h].
C7_EightyPercent ==
    /\ \A t \in CommittedTrades :
          /\ plan_total(t.discharge_plan) * 10 >= t.charge_amount * 8
          /\ \A e \in PlanEntries(t) : e.hour > t.charge_hour /\ e.amount > 0
    /\ \A h \in Hours :
          plan.actions[h] > 0 =>
              /\ \E t \in CommittedTrades : t.charge_hour = h
              /\ AttributedDischarge(h) * 10 >= plan.actions[h] * 8

\* An executed charge of which less than 100% could be placed.
C7_Witness ==
    \E t \in CommittedTrades :
        /\ plan_total(t.discharge_plan) < t.charge_amount
        /\ plan.actions[t.charge_hour] > 0

\* C8: total savings are >= 0 and are 0 exactly when no action was executed.
C8_SavingsNonNegative ==
    pc = "done" =>
        /\ result.cost_savings >= 0
        /\ (result.cost_savings = 0 <=> \A h \in Hours : plan.actions[h] = 0)

\* ------------------------------------------------------------------------
\* Properties of the facade
\* ------------------------------------------------------------------------
\* C9: the planned trajectory starts at the state of charge the facade read
\* before planning: soe[0] = total * initial_soc / 100, clamped to
\* [reserved, total].
C9_StartsAtCurrentSoC ==
    current_schedule # NoSchedule =>
        current_schedule.state_of_energy[0] =
            Clamp((cfg.total_capacity * planned_soc) \div 100,
                  cfg.reserved_capacity, cfg.total_capacity)

\* C10: apply_schedule(h) calls a setter only with a value that differs from
\* the value read from the inverter; when the inverter already matches the
\* hour's settings no setter is called; an apply_schedule(h) issued right
\* after a successful apply_schedule(h) performs no write.
C10_ApplyIdempotent ==
    last_call.op = "apply_schedule" =>
        /\ \A i \in DOMAIN calls : calls[i].value # calls[i].current
        /\ last_call.matched => calls = << >>
        /\ last_call.repeat => \A i \in DOMAIN calls : ~ calls[i].service_call
        /\ (last_call.repeat /\ ~ test_mode) => calls = << >>

\* A repeated apply_schedule for an hour whose settings are not the idle ones.
C10_Witness ==
    /\ last_call.op = "apply_schedule"
    /\ last_call.repeat
    /\ last_call.ok
    /\ ~ test_mode
    /\ (grid_charge \/ discharge_rate = 100)
    /\ get_hourly_settings(sm_schedule, last_call.hour) =
           [grid_charge |-> grid_charge, discharge_rate |-> discharge_rate]

\* Events of the last facade call.
TraceHas(ev) == \E i \in DOMAIN trace : trace[i].ev = ev
InverterCallFailed == TraceHas("service_call_failed")

\* C11: a call that fails because an inverter call failed after its retries
\* leaves the schedule that was current before the call as the current one;
\* so does a prepare_next_day_schedule that returns False for this reason.
C11_FailedTickKeepsSchedule ==
    InverterCallFailed => current_schedule = before_call.current_schedule

\* Positions of the trace at which a setter of the inverter was invoked, and
\* at which a newly computed plan became the current schedule.
WriteEvents ==
    {i \in DOMAIN trace :
        trace[i].ev \in {"set_grid_charge", "set_discharging_power_rate",
                         "set_inverter_time_segment"}}
PlanEvents == {i \in DOMAIN trace : trace[i].ev = "plan"}

\* C12: in an hourly adaptation that re-plans while an older plan is in
\* force, the new plan replaces the old one before any inverter write of
\* the tick: no write precedes the replacement.
C12_PlanBeforeWrites ==
    ( /\ last_call.op = "run_hourly_adaptation"
      /\ ~ test_mode
      /\ before_call.current_schedule # NoSchedule
      /\ PlanEvents # {} )
        => \A w \in WriteEvents : \A p \in PlanEvents : p < w

\* The segments handed to set_inverter_time_segment by the last call, in
\* order.
IsSegmentWrite(e) == e.ev = "set_inverter_time_segment"
SegmentWrites ==
    [i \in 1 .. Len(SelectSeq(trace, IsSegmentWrite)) |->
        SelectSeq(trace, IsSegmentWrite)[i].segment]

DisabledSegment(segment_id) ==
    [segment_id |-> segment_id, batt_mode |-> "battery-first",
     start_time |-> hhmm(0, 0), end_time |-> hhmm(23, 59), enabled |-> FALSE]

\* C14: prepare_next_day_schedule first disables the segments 1..8, and only
\* when all of them are done writes segments; the segments it writes are the
\* enabled segments of get_daily_TOU_settings of the newly computed plan, in
\* order, all of them when it returns True.
C14_DisableBeforeSegments ==
    last_call.op = "prepare_next_day_schedule" =>
        LET daily == get_daily_TOU_settings(tou_intervals)
            n == Len(SegmentWrites)
        IN /\ \A i \in 1 .. Min(n, 8) : SegmentWrites[i] = DisabledSegment(i)
           /\ n <= 8 + Len(daily)
           /\ \A i \in 9 .. n :
                 SegmentWrites[i] = daily[i - 8] /\ daily[i - 8].enabled
           /\ last_call.ok => n = 8 + Len(daily)
           /\ n > 0 => TraceHas("plan")

\* A successful prepare_next_day_schedule that replaced a plan and wrote two
\* segments to the inverter.
C14_Witness ==
    /\ last_call.op = "prepare_next_day_schedule"
    /\ last_call.ok
    /\ ~ test_mode
    /\ before_call.current_schedule # NoSchedule
    /\ before_call.current_schedule # current_schedule
    /\ Len(SegmentWrites) = 8 + 2

\* C16: when tomorrow's price list is empty prepare_next_day_schedule
\* returns False, hands nothing to the inverter and leaves the current
\* schedule and the schedule manager's intervals as they were.
C16_NoPricesNoChange ==
    (last_call.op = "prepare_next_day_schedule" /\ TraceHas("no_prices")) =>
        /\ ~ last_call.ok
        /\ WriteEvents = {}
        /\ calls = << >>
        /\ snapshot = before_call
        /\ sm_schedule = before_call.current_schedule

\* No prices for tomorrow while a plan is in force and the inverter is
\* written for real.
C16_Witness ==
    /\ last_call.op = "prepare_next_day_schedule"
    /\ TraceHas("no_prices")
    /\ ~ test_mode
    /\ has_controller
    /\ current_schedule # NoSchedule
    /\ tou_intervals # << >>

\* C17: when the state of charge is not available (there is no controller,
\* or reading the sensor fails) and prices are there, prepare_schedule still
\* produces a plan, with min_soc as the state of charge.
C17_SocDefaultsToMinSoc ==
    ( /\ last_call.op = "prepare_schedule"
      /\ ~ TraceHas("no_prices")
      /\ (~ has_controller \/ battery_soc = SOC_UNAVAILABLE) )
        => /\ last_call.ok
           /\ TraceHas("plan")
           /\ current_schedule # NoSchedule
           /\ planned_soc = BATTERY_MIN_SOC

\* ------------------------------------------------------------------------
\* Properties of the projector
\* ------------------------------------------------------------------------
EndOfDayInterval(segment_id) ==
    [ segment_id |-> segment_id, batt_mode |-> "load-first",
      start_time |-> hhmm(23, 45), end_time |-> hhmm(23, 59),
      enabled |-> TRUE, grid_charge |-> FALSE, discharge_rate |-> 0 ]

\* C18: the detailed intervals of a 24-hour schedule partition 00:00-23:59:
\* the first starts at 00:00, each ends one minute before the next starts,
\* the last regular one ends at 23:44 and the final one is the load-first
\* interval 23:45-23:59.
C18_DetailedPartition ==
    sm_schedule # NoSchedule =>
        LET n == Len(detailed_intervals)
        IN /\ n >= 2
           /\ detailed_intervals[1].start_time = hhmm(0, 0)
           /\ \A i \in 1 .. n :
                 /\ detailed_intervals[i].segment_id = i
                 /\ detailed_intervals[i].start_time < detailed_intervals[i].end_time
           /\ \A i \in 1 .. n - 1 :
                 detailed_intervals[i].end_time + 1 = detailed_intervals[i + 1].start_time
           /\ detailed_intervals[n - 1].end_time = hhmm(23, 44)
           /\ detailed_intervals[n] = EndOfDayInterval(n)

\* A day whose hour 23 starts charging.
C18_Witness ==
    /\ sm_schedule # NoSchedule
    /\ sm_schedule.actions[HOURS_PER_DAY - 1] > 0
    /\ sm_schedule.actions[HOURS_PER_DAY - 2] < 0
    /\ Len(detailed_intervals) > 4

WakeUpInterval(segment_id, hour) ==
    [ segment_id |-> segment_id, batt_mode |-> "load-first",
      start_time |-> hhmm(hour, 45), end_time |-> hhmm(hour, 59),
      enabled |-> TRUE, grid_charge |-> FALSE, discharge_rate |-> 0 ]

\* Hour h starts charging after an hour that does not charge.
StartsCharging(h) ==
    sm_schedule.actions[h] > 0 /\ ~ (sm_schedule.actions[h - 1] > 0)

\* C19: before every hour h >= 1 that charges after a non-charging hour
\* there is a load-first wake-up interval (h-1):45-(h-1):59 without grid
\* charge and with discharge rate 0, and the interval before it ends at
\* (h-1):44; at every other change of behaviour the closing interval ends
\* at (h-1):59.
C19_WakeUpBeforeCharging ==
    sm_schedule # NoSchedule =>
        \A h \in 1 .. HOURS_PER_DAY - 1 :
            LET n == Len(detailed_intervals)
                previous == sm_schedule.actions[h - 1]
            IN IF StartsCharging(h)
               THEN \E i \in 2 .. n - 1 :
                       /\ detailed_intervals[i] = WakeUpInterval(i, h - 1)
                       /\ detailed_intervals[i - 1].end_time = hhmm(h - 1, 44)
                       /\ detailed_intervals[i - 1].discharge_rate
                              = (IF previous < 0 THEN 100 ELSE 0)
                       /\ detailed_intervals[i + 1].start_time = hhmm(h, 0)
                       /\ detailed_intervals[i + 1].grid_charge
               ELSE IF behavior_changed(previous, sm_schedule.actions[h])
               THEN \E i \in 1 .. n - 1 :
                       /\ detailed_intervals[i].end_time = hhmm(h - 1, 59)
                       /\ detailed_intervals[i].grid_charge = (previous > 0)
                       /\ detailed_intervals[i].discharge_rate
                              = (IF previous < 0 THEN 100 ELSE 0)
                       /\ detailed_intervals[i + 1].start_time = hhmm(h, 0)
               ELSE TRUE

\* A day with a charging hour after a discharging hour, one after an idle
\* hour, and a change of behaviour that needs no wake-up.
C19_Witness ==
    /\ sm_schedule # NoSchedule
    /\ \E h \in 1 .. HOURS_PER_DAY - 1 :
          StartsCharging(h) /\ sm_schedule.actions[h - 1] < 0
    /\ \E h \in 1 .. HOURS_PER_DAY - 1 :
          StartsCharging(h) /\ sm_schedule.actions[h - 1] = 0
    /\ \E h \in 1 .. HOURS_PER_DAY - 1 :
          sm_schedule.actions[h] = 0 /\ sm_schedule.actions[h - 1] > 0

\* The maximal runs of consecutive battery-first intervals among the
\* regular detailed intervals, as pairs of positions.
BatteryFirstRuns ==
    LET last == Len(detailed_intervals) - 1
        bf(i) == detailed_intervals[i].batt_mode = "battery-first"
    IN { r \in (1 .. last) \X (1 .. last) :
            /\ r[1] <= r[2]
            /\ \A i \in r[1] .. r[2] : bf(i)
            /\ r[1] = 1 \/ ~ bf(r[1] - 1)
            /\ r[2] = last \/ ~ bf(r[2] + 1) }

\* C20: get_daily_TOU_settings returns at most max_intervals segments, all
\* of them enabled and battery-first; the k-th one spans the k-th maximal
\* run of consecutive battery-first detailed intervals.
C20_CompactList ==
    LET daily == get_daily_TOU_settings(tou_intervals)
    IN /\ Len(daily) <= max_intervals
       /\ Len(daily) = Min(max_intervals, Cardinality(BatteryFirstRuns))
       /\ \A k \in 1 .. Len(daily) :
             /\ daily[k].enabled
             /\ daily[k].batt_mode = "battery-first"
             /\ daily[k].segment_id = k
             /\ \E r \in BatteryFirstRuns :
                   /\ daily[k].start_time = detailed_intervals[r[1]].start_time
                   /\ daily[k].end_time = detailed_intervals[r[2]].end_time
                   /\ Cardinality({q \in BatteryFirstRuns : q[1] < r[1]}) = k - 1

\* A day with more battery-first runs than the inverter has segments.
C20_Witness ==
    /\ Len(tou_intervals) > max_intervals
    /\ Len(get_daily_TOU_settings(tou_intervals)) = max_intervals

\* ------------------------------------------------------------------------
\* Properties of the triggered functions
\* ------------------------------------------------------------------------
\* Functions that are inside the facade and wait: for an awaited service
\* call or in the sleep between two attempts.
Suspended == {t \in Tasks : tasks[t].pc \in {"calling", "sleeping"}}

\* C13: no two triggered functions are inside the facade at the same time;
\* while one waits for a service call or sleeps between retries no other
\* one is inside.
C13_OneTaskInFacade == Cardinality(Suspended) <= 1

\* What a call of service_call_with_retry that is under way or over has
\* done so far: attempt + 1 service calls at most max_attempts, retry_delay
\* seconds slept before every attempt but the first, a return right after a
\* successful attempt, an error only after max_attempts failures.
RetryBounded(t) ==
    /\ tasks[t].attempt + 1 <= max_attempts
    /\ tasks[t].waited = retry_delay * tasks[t].attempt
    /\ tasks[t].pc = "raised" => tasks[t].attempt + 1 = max_attempts
    /\ tasks[t].pc = "sleeping" => tasks[t].attempt + 1 < max_attempts

\* C15: service_call_with_retry makes at most max_attempts service calls,
\* sleeps retry_delay between consecutive attempts, returns after the first
\* success, raises only after the max_attempts-th failure, and every call
\* of it comes to an end.
C15_RetryTerminates ==
    /\ [](\A t \in Tasks : RetryBounded(t))
    /\ \A t \in Tasks :
          (tasks[t].pc \in {"calling", "sleeping"})
              ~> (tasks[t].pc \in {"returned", "raised"})

\* A call that failed max_attempts times and has raised, after 12 s of sleep.
C15_Witness ==
    \E t \in Tasks :
        /\ tasks[t].pc = "raised"
        /\ tasks[t].attempt = max_attempts - 1
        /\ tasks[t].waited = retry_delay * (max_attempts - 1)


\* ------------------------------------------------------------------------
\* Properties of the per-hour settings
\* ------------------------------------------------------------------------
\* The settings that switch everything off.
IdleSettings(settings) == ~ settings.grid_charge /\ settings.discharge_rate = 0

\* C21: for every hour h in 0..23 the settings returned by
\* get_hourly_settings(h) reproduce the hour's tag: grid_charge is true iff
\* the hour is charging, the discharge rate is 100 iff the hour is
\* discharging and 0 otherwise; for an hour outside 0..23, or when no
\* schedule is loaded, the settings are the idle default.
C21_SettingsReproduceTag ==
    hourly_settings.asked =>
        LET h == hourly_settings.hour
        IN IF hourly_settings.loaded /\ h \in 0 .. HOURS_PER_DAY - 1
           THEN /\ hourly_settings.grid_charge <=> sm_schedule.actions[h] > 0
                /\ hourly_settings.discharge_rate \in {0, 100}
                /\ hourly_settings.discharge_rate = 100 <=> sm_schedule.actions[h] < 0
           ELSE IdleSettings(hourly_settings)

\* The settings of a discharging hour of a loaded schedule were asked for.
C21_Witness ==
    /\ hourly_settings.asked
    /\ hourly_settings.loaded
    /\ hourly_settings.hour \in 0 .. HOURS_PER_DAY - 1
    /\ sm_schedule.actions[hourly_settings.hour] < 0
    /\ hourly_settings.discharge_rate = 100


\* ------------------------------------------------------------------------
\* Properties of the power monitor
\* ------------------------------------------------------------------------
\* The last step was a tick of the monitor.
MonitorTicked == last_call.op = "adjust_charging_power"

\* The target of the monitor for the present phase loads, as a fraction of
\* pct_den: 100 minus the percentage of the most loaded phase, clipped.
MostLoadedPct ==
    max3(phase_currents[1], phase_currents[2], phase_currents[3])
        * HomeSettings.voltage * 100 * 100
TargetPct ==
    Clamp(as_pct(100, HomeSettings) - MostLoadedPct, 0,
          as_pct(BATTERY_DEFAULT_CHARGING_POWER_RATE, HomeSettings))

\* C22: starting within [0, configured charging rate], the charging rate
\* stays within [0, configured charging rate] after any sequence of ticks
\* under any phase loads; the target the monitor steers to is 100 minus the
\* percentage of the most loaded phase, clipped to the same range.
C22_SetpointInRange ==
    /\ charging_power_rate \in 0 .. BATTERY_DEFAULT_CHARGING_POWER_RATE
    /\ calculate_available_charging_power(phase_currents, HomeSettings) = TargetPct

\* A tick has moved the charging rate while a phase was above its limit.
C22_Witness ==
    /\ MonitorTicked
    /\ charging_power_rate # before_call.charging_power_rate
    /\ MostLoadedPct > as_pct(100, HomeSettings)

\* A tick with grid charging enabled that could read and write.
EffectiveTick ==
    /\ MonitorTicked
    /\ last_call.ok
    /\ ~ test_mode
    /\ before_call.grid_charge

\* C23: on every tick with grid charging enabled in which the charging rate
\* differs from the target, the new rate is strictly closer to the target
\* than the old one, lies between the old rate and the target, and differs
\* from the old rate by at most step_size.
C23_SteppedTowardTarget ==
    (EffectiveTick /\ as_pct(before_call.charging_power_rate, HomeSettings) # TargetPct) =>
        LET old == as_pct(before_call.charging_power_rate, HomeSettings)
            new == as_pct(charging_power_rate, HomeSettings)
        IN /\ Abs(TargetPct - new) < Abs(TargetPct - old)
           /\ Min(old, TargetPct) <= new /\ new <= Max(old, TargetPct)
           /\ Abs(new - old) <= as_pct(step_size, HomeSettings)

\* What a tick may leave in the trace.
MonitorEvents == {"set_charging_power_rate", "service_call_failed", "phase_read_failed"}

\* C24: the monitor writes nothing to the inverter while grid charging is
\* disabled, and when it is enabled the only inverter value it writes is the
\* charging rate: grid charge, discharge rate, the TOU intervals and the
\* current schedule are as they were when the tick started.
C24_OnlyChargingRate ==
    MonitorTicked =>
        /\ ~ before_call.grid_charge =>
               /\ trace = << >>
               /\ charging_power_rate = before_call.charging_power_rate
        /\ \A i \in DOMAIN trace : trace[i].ev \in MonitorEvents
        /\ grid_charge = before_call.grid_charge
        /\ discharge_rate = before_call.discharge_rate
        /\ current_schedule = before_call.current_schedule
        /\ sm_schedule = before_call.sm_schedule
        /\ detailed_intervals = before_call.detailed_intervals
        /\ tou_intervals = before_call.tou_intervals

\* A tick with grid charging disabled while the rate was off its target,
\* and a tick that wrote the rate.
C24_Witness ==
    /\ MonitorTicked
    /\ \/ /\ ~ before_call.grid_charge
          /\ as_pct(charging_power_rate, HomeSettings) > TargetPct + as_pct(step_size, HomeSettings)
       \/ /\ before_call.grid_charge
          /\ TraceHas("set_charging_power_rate")
          /\ charging_power_rate # before_call.charging_power_rate

\* Grid charging is enabled and the charging rate is no greater than the
\* target.
WithinAvailable ==
    /\ grid_charge
    /\ as_pct(charging_power_rate, HomeSettings) <= TargetPct

\* C28: with grid charging enabled and the phase loads held constant,
\* repeated ticks eventually bring the charging rate to a value no greater
\* than the available percentage, where it stays.
C28_SettlesWithinAvailable == <>[]WithinAvailable


\* ---- Consumption manager ----

ConsumptionUpdated == last_call.op = "update_consumption" /\ last_call.ok

\* The sum of the actual values of the n most recent records.
RECURSIVE sum_of_latest(_, _, _)
sum_of_latest(f, order, n) ==
    IF n = 0 \/ order = << >> THEN 0
    ELSE f[order[Len(order)]]
         + sum_of_latest(f, SubSeq(order, 1, Len(order) - 1), n - 1)

\* C25: after an update_consumption(h, ...) at which at least three actual
\* values exist, every prediction for the hours h+1..23 is the mean of the
\* three most recently recorded actual values.
C25_MeanOfThreeMostRecent ==
    (ConsumptionUpdated /\ Len(update_order) >= RECENT_VALUES)
        => \A h \in (last_call.hour + 1) .. LAST_HOUR_OF_DAY :
              predictions[h] = sum_of_latest(actual_consumption, update_order,
                                             RECENT_VALUES)

ConsumptionCalled == last_call.op = "update_consumption"

\* The arguments of the last call that the validation has to refuse.
InvalidArguments ==
    \/ last_call.hour \notin 0 .. 23
    \/ last_call.grid_import < 0
    \/ (last_call.soc_given /\ last_call.soc \notin 0 .. 100)

\* C26: update_consumption rejects an hour outside 0..23, a negative
\* grid_import and a state of charge outside 0..100 with an error, and a
\* rejected call leaves the recorded actuals, the SoC samples and the
\* predictions exactly as they were before the call.
C26_RejectedLeavesUnchanged ==
    ConsumptionCalled
        => /\ InvalidArguments => ~ last_call.ok
           /\ ~ last_call.ok => last_call.matched

\* A call with a state of charge of 101 is rejected after an hour has been
\* recorded with its sample.
C26_Witness ==
    /\ ConsumptionCalled
    /\ ~ last_call.ok
    /\ last_call.hour \in 0 .. 23
    /\ last_call.grid_import >= 0
    /\ last_call.soc_given /\ last_call.soc = 101
    /\ update_order # << >>
    /\ soc_of_hour # << >>

\* The change of stored energy between two samples, in tenths of kWh:
\* (soc[h] - soc[p]) / 100 * total_capacity.
EnergyBetween(h, p) ==
    ((soc_of_hour[h] - soc_of_hour[p]) * cfg.total_capacity) \div 100

\* C30, as stated: update_consumption(h, grid_import, soc) records
\* grid_import + (soc[h] - soc[h-1]) / 100 * total_capacity when samples
\* exist for both hour h and hour h-1 of the day, and grid_import alone when
\* either sample is missing.
C30_ActualIsImportPlusChange ==
    ConsumptionUpdated
        => LET h == last_call.hour
           IN actual_consumption[h] =
                IF h \in DOMAIN soc_of_hour /\ (h - 1) \in DOMAIN soc_of_hour
                THEN last_call.grid_import + EnergyBetween(h, h - 1)
                ELSE last_call.grid_import

\* The hour before h on the clock: hour 23 for h = 0.
ClockHourBefore(h) == IF h = 0 THEN 23 ELSE h - 1

\* C30, amended: an accepted update_consumption(h, grid_import, soc) records
\* max(min_valid, grid_import + (soc[h] - soc[p]) / 100 * total_capacity)
\* when samples exist for both hour h and the hour p before it on the clock
\* (hour 23 for h = 0), and max(min_valid, grid_import) when either sample
\* is missing.
C30_ActualIsFlooredImportPlusChange ==
    ConsumptionUpdated
        => LET h == last_call.hour
               p == ClockHourBefore(h)
               load == IF h \in DOMAIN soc_of_hour /\ p \in DOMAIN soc_of_hour
                       THEN last_call.grid_import + EnergyBetween(h, p)
                       ELSE last_call.grid_import
           IN actual_consumption[h] =
                IF load < ConsumptionSettings.min_valid
                THEN ConsumptionSettings.min_valid ELSE load

\* Hour 0 is recorded after hour 23, the battery having discharged between
\* the two samples by more than was imported: the floor is recorded.
C30_Witness ==
    /\ ConsumptionUpdated
    /\ last_call.hour = 0
    /\ {0, 23} \subseteq DOMAIN soc_of_hour
    /\ soc_of_hour[0] < soc_of_hour[23]
    /\ last_call.grid_import + EnergyBetween(0, 23) < ConsumptionSettings.min_valid
    /\ actual_consumption[0] = ConsumptionSettings.min_valid

\* ---- The compact list and the plan ----

\* The segments handed to the inverter.
DailySegments == get_daily_TOU_settings(tou_intervals)

\* The minutes from..to lie inside one of the returned segments.
InsideSegment(from, to) ==
    \E k \in 1 .. Len(DailySegments) :
        DailySegments[k].start_time <= from /\ to <= DailySegments[k].end_time

\* No minute of from..to lies in a returned segment.
OutsideSegments(from, to) ==
    \A k \in 1 .. Len(DailySegments) :
        DailySegments[k].end_time < from \/ to < DailySegments[k].start_time

\* Discharging hours, wake-up windows and the end of the day are covered by
\* no returned segment.
LoadFirstUncovered ==
    /\ \A h \in 0 .. HOURS_PER_DAY - 1 :
          sm_schedule.actions[h] < 0 => OutsideSegments(hhmm(h, 0), hhmm(h, 59))
    /\ \A h \in 1 .. HOURS_PER_DAY - 1 :
          StartsCharging(h) => OutsideSegments(hhmm(h - 1, 45), hhmm(h - 1, 59))
    /\ OutsideSegments(hhmm(23, 45), hhmm(23, 59))

\* C27, as stated: for every hour h of any schedule, the minutes h:00-h:44
\* lie inside one of the battery-first segments returned by
\* get_daily_TOU_settings if and only if hour h is charging or idle;
\* discharging hours, wake-up windows and the 23:45-23:59 tail are covered
\* by no returned segment.
C27_CompactListIsWholePlan ==
    sm_schedule # NoSchedule =>
        /\ \A h \in 0 .. HOURS_PER_DAY - 1 :
              InsideSegment(hhmm(h, 0), hhmm(h, 44)) <=> sm_schedule.actions[h] >= 0
        /\ LoadFirstUncovered

\* The battery-first periods of the plan that begin at or before hour h: a
\* period begins with a charging or idle hour that is hour 0, follows a
\* discharging hour or follows a wake-up window.
PeriodsBegunBy(h) ==
    Cardinality({ g \in 0 .. h :
                    /\ sm_schedule.actions[g] >= 0
                    /\ \/ g = 0
                       \/ sm_schedule.actions[g - 1] < 0
                       \/ StartsCharging(g) })

\* C27, amended: for every hour h of any schedule, the minutes h:00-h:44
\* lie inside one of the returned segments if and only if hour h is
\* charging or idle and belongs to one of the first max_intervals
\* battery-first periods of the day; discharging hours, wake-up windows and
\* the 23:45-23:59 tail are covered by no returned segment.
C27_CompactListIsPlanUpToMaxIntervals ==
    sm_schedule # NoSchedule =>
        /\ \A h \in 0 .. HOURS_PER_DAY - 1 :
              InsideSegment(hhmm(h, 0), hhmm(h, 44))
                 <=> /\ sm_schedule.actions[h] >= 0
                     /\ PeriodsBegunBy(h) <= max_intervals
        /\ LoadFirstUncovered

\* A day with a wake-up window and with more battery-first periods than
\* segments: a late idle or charging hour is in no returned segment, an
\* early one is.
C27_Witness ==
    /\ sm_schedule # NoSchedule
    /\ \E h \in 1 .. HOURS_PER_DAY - 1 :
          StartsCharging(h) /\ sm_schedule.actions[h - 1] = 0
    /\ \E h \in 0 .. HOURS_PER_DAY - 1 :
          /\ sm_schedule.actions[h] >= 0
          /\ PeriodsBegunBy(h) > max_intervals
          /\ ~ InsideSegment(hhmm(h, 0), hhmm(h, 44))
    /\ \E h \in 0 .. HOURS_PER_DAY - 1 :
          sm_schedule.actions[h] > 0 /\ InsideSegment(hhmm(h, 0), hhmm(h, 44))

\* ---- The usable-energy budget of the planner ----

\* "energy_for_discharge = total_capacity - reserved_capacity"
UsableBudget == cfg.total_capacity - cfg.reserved_capacity

\* Charge of the first n executed trades.
ChargeOfFirst(n) ==
    seq_sum([i \in 1 .. n |-> plan.committed[i].charge_amount])

\* C29: the planner commits no further trade once the cumulative committed
\* charge has reached the budget total - reserved, and each hour is the
\* charge hour of at most one committed trade; hence the total energy
\* charged over the day is less than (total - reserved) + max_charge_rate.
C29_BudgetStopsCommits ==
    /\ \A i \in 1 .. Len(plan.committed) : ChargeOfFirst(i - 1) < UsableBudget
    /\ \A i, j \in 1 .. Len(plan.committed) :
          plan.committed[i].charge_hour = plan.committed[j].charge_hour => i = j
    /\ ChargeOfFirst(Len(plan.committed)) < UsableBudget + cfg.max_charge_rate

\* The loop has stopped on the budget with candidates left, after two
\* executed trades.
C29_Witness ==
    /\ pc = "done"
    /\ idx <= Len(trades)
    /\ Len(plan.committed) >= 2
    /\ ChargeOfFirst(Len(plan.committed)) >= UsableBudget
    /\ plan.energy_for_discharge <= 0

====
